---- MODULE Spec2Model ----
(***************************************************************************)
(* Model of the permission service (lib/permissions-new.ts) and of the     *)
(* fixed-window rate limiter (lib/rate-limiting.ts) of the club platform.  *)
(*                                                                         *)
(* The relational store is modelled by its tables: `users`, `permissions`, *)
(* `role_permissions` and `user_permissions`, and by the view              *)
(* `user_effective_permissions`.  A query of the client library takes one  *)
(* more input here: whether the read or write reports an error.            *)
(***************************************************************************)
EXTENDS Integers, Sequences, FiniteSets, TLC

VARIABLES
    user_permissions,   \* the user_permissions table, rows in insertion order
    now,                \* the clock read by the store, in minutes
    last,               \* the latest call of the permission service and what it returned
    rateLimitStore,     \* Map<string, RateLimitEntry> of the rate limiter
    nowMs,              \* Date.now() as read by the rate limiter, in milliseconds
    response,           \* the latest response of a route wrapped by withRateLimit
    standing,           \* history: how the limiter answered the latest requests of a key
    limited,            \* history: the user and the role options of the latest request of a limited route
    cache,              \* Map<string, CacheEntry> of the response cache
    tagMap,             \* Map<string, Set<string>>: tag -> cache keys
    cacheNow,           \* Date.now() as read by the cache, in milliseconds
    cacheLast,          \* the latest call of ApiCache and what it returned
    registered,         \* history: the tags of the latest set of each cached key
    served,             \* the latest response of a route wrapped by withCache
    is_active,          \* users.is_active of the profiles requests authenticate to
    tasks,              \* the tasks table: <<assigned_by, club_id>> of each task
    activities,         \* the activities table: created_by of the rows of the maintenance log
    authLast,           \* the latest answer of a route wrapped by withAuth or of a role guard
    userRows,           \* the users table as the auth hooks of the browser find it
    authState,          \* the AuthState of each implementation of the auth bootstrap
    globalAuthInitialized,  \* the flag of the global singleton hook
    booted,             \* history: the latest bootstrap, its session and what failed in it
    permissionCache,    \* PermissionCache.cache: user id -> permissions, expires, version
    fetching,           \* the calls of getUserPermissions that await the fresh permissions
    permNow,            \* Date.now() as read by PermissionCache, in milliseconds
    permLast,           \* the latest call of PermissionCache and what it returned
    readAt,             \* history: when the list cached for a user was read from the store
    revokedAt,          \* history: when the permission of the cached user was last revoked
    invalidated,        \* history: the users invalidated and not asked for since
    memberRows,         \* the club_members table: <<club_id, user_id>> of each row, in insertion order
    adding,             \* the requests POST /api/clubs/[id]/members, each with its position
    resource,           \* the revision of the data the handlers of a cached endpoint read and write
    handling,           \* the requests through withCache that await their handler
    completed,          \* history: the revision written by the latest mutation that has returned
    answered,           \* the latest response of the route whose requests overlap
    globalListeners,    \* the components whose setState the global singleton hook notifies
    globalSubscription, \* the subscription the global singleton hook holds, or null
    authListenerInitialized,  \* the flag of initAuthListener
    callbacks,          \* the callbacks the identity provider holds of the singleton and of the store
    resubscribed,       \* history: the singleton has unsubscribed at least once
    browserSession,     \* the user of the session of the browser at the identity provider
    listening,          \* the implementations that are mounted and subscribed
    pending,            \* per implementation, the handlers that await their profile read
    signedOut,          \* history: SIGNED_OUT was handled and no sign-in event came since
    handled             \* history: the handling that the last step finished

permVars == <<user_permissions, now, last>>
rateVars == <<rateLimitStore, nowMs, response, standing>>
limitVars == <<limited>>
permCacheVars == <<permissionCache, fetching, permNow, permLast, readAt, revokedAt, invalidated>>
memberVars == <<memberRows, adding>>
overlapVars == <<resource, handling, completed, answered>>
subscriptionVars == <<globalListeners, globalSubscription, authListenerInitialized, callbacks, resubscribed>>
sessionVars == <<browserSession, listening, pending, signedOut, handled>>
cacheVars == <<cache, tagMap, cacheNow, cacheLast, registered, served>>
authVars == <<is_active, tasks, activities, authLast>>
bootVars == <<userRows, authState, globalAuthInitialized, booted>>
vars == <<permVars, rateVars, limitVars, cacheVars, authVars, bootVars, permCacheVars, memberVars, overlapVars, subscriptionVars, sessionVars>>

\* what the steps of each part of the system leave alone
exceptPerm == <<rateVars, limitVars, cacheVars, authVars, bootVars, permCacheVars, memberVars, overlapVars, subscriptionVars, sessionVars>>
exceptRate == <<permVars, limitVars, cacheVars, authVars, bootVars, permCacheVars, memberVars, overlapVars, subscriptionVars, sessionVars>>
exceptLimit == <<permVars, cacheVars, authVars, bootVars, permCacheVars, memberVars, overlapVars, subscriptionVars, sessionVars>>
exceptCache == <<permVars, rateVars, limitVars, authVars, bootVars, permCacheVars, memberVars, overlapVars, subscriptionVars, sessionVars>>
exceptAuth == <<permVars, rateVars, limitVars, cacheVars, bootVars, permCacheVars, memberVars, overlapVars, subscriptionVars, sessionVars>>
exceptBoot == <<permVars, rateVars, limitVars, cacheVars, authVars, permCacheVars, memberVars, overlapVars, subscriptionVars, sessionVars>>
exceptPermCache == <<now, last, rateVars, limitVars, cacheVars, authVars, bootVars, memberVars, overlapVars, subscriptionVars, sessionVars>>
exceptMember == <<permVars, rateVars, limitVars, cacheVars, authVars, bootVars, permCacheVars, overlapVars, subscriptionVars, sessionVars>>
exceptOverlap == <<permVars, rateVars, limitVars, authVars, bootVars, permCacheVars, memberVars, subscriptionVars, sessionVars>>
exceptSubscription == <<permVars, rateVars, limitVars, cacheVars, authVars, permCacheVars, memberVars, overlapVars, sessionVars>>
exceptSession == <<permVars, rateVars, limitVars, cacheVars, authVars, permCacheVars, memberVars, overlapVars, subscriptionVars>>

----------------------------------------------------------------------------
(* Bounds *)

MaxRows == 2        \* rows the user_permissions table may hold
MaxNow == 1         \* last minute of the clock
MaxNames == 2       \* longest permissionNames list of updateUserPermissions
MaxTicks == 4       \* clock steps of the rate limiter
MaxCacheTicks == 2  \* clock steps of the response cache
MaxEntries == 2     \* entries the routes wrapped by withCache may leave in the cache
MaxMinutes == 7     \* clock steps of the permission cache
MaxFetching == 1    \* calls of getUserPermissions that may await their fetch at once
MaxAdds == 3        \* requests to add a member to a club
MaxMutations == 2   \* mutations of the data behind the cached endpoint
MaxHandling == 2    \* requests through withCache that may await their handler at once
MaxComponents == 2  \* components that use the global singleton hook
MaxPending == 1     \* handlers of one implementation that may await their profile read at once

----------------------------------------------------------------------------
(* The tables the permission service reads *)

NoRow == "no_row"
NoId == "no_id"
NoExpiry == -1
NoContext == "no_context"
NoClub == "no_club"

\* rows of the users table: id -> role
users ==
    [u \in {"admin1", "member1"} |->
        [role |-> IF u = "admin1" THEN "admin" ELSE "member"]]

UserIds == DOMAIN users

\* rows of the permissions table: name -> id (name is unique)
permissions ==
    [n \in {"CREATE_CLUB", "VIEW_CLUBS"} |->
        IF n = "CREATE_CLUB" THEN "perm1" ELSE "perm2"]

PermissionNames == DOMAIN permissions \cup {"NO_SUCH_PERMISSION"}

\* permissions.select('id').eq('name', name).single()
PermissionId(name) ==
    IF name \in DOMAIN permissions THEN permissions[name] ELSE NoId

\* rows of the role_permissions table: role -> permission names
role_permissions ==
    [r \in {"admin", "club_leader", "member"} |->
        CASE r = "admin" -> {"CREATE_CLUB", "VIEW_CLUBS"}
          [] OTHER -> {"VIEW_CLUBS"}]

\* the value of user_permissions.is_active a fresh row gets
DefaultIsActive == TRUE

\* contexts a caller passes or a grant stores: none, an object without
\* clubId, an object with clubId
Contexts == {NoContext, "ctx_other", "club1", "club2"}

\* contexts the grants of the model store
StoredContexts == {NoContext, "club1"}

\* context.clubId
ClubId(context) ==
    IF context \in {"club1", "club2"} THEN context ELSE NoClub

\* a grant that is active and has not expired at the current time
Live(row) ==
    /\ row.is_active
    /\ row.expires_at = NoExpiry \/ row.expires_at > now

\* the view user_effective_permissions filtered by user_id and permission_name:
\* role-derived permissions (row 0) joined with the live individual grants
user_effective_permissions(userId, permissionName) ==
    {i \in {0} : /\ userId \in UserIds
                 /\ permissionName \in role_permissions[users[userId].role]}
    \cup
    {i \in DOMAIN user_permissions :
        /\ user_permissions[i].user_id = userId
        /\ PermissionId(permissionName) # NoId
        /\ user_permissions[i].permission_id = PermissionId(permissionName)
        /\ Live(user_permissions[i])}

\* the reads of hasPermission; each may report an error
Reads == {"users", "user_effective_permissions", "permissions", "user_permissions"}

----------------------------------------------------------------------------
(* PermissionService *)

\* the grant rows the context branch looks at: user_permissions filtered by
\* user_id and permission_id only
ContextRows(userId, permissionName, failed) ==
    LET permId == IF "permissions" \in failed THEN NoId ELSE PermissionId(permissionName)
    IN  IF "user_permissions" \in failed \/ permId = NoId
        THEN {}
        ELSE {i \in DOMAIN user_permissions :
                /\ user_permissions[i].user_id = userId
                /\ user_permissions[i].permission_id = permId}

\* hasPermission without the admin branch
hasPermission_NoAdminBranch(userId, permissionName, context, failed) ==
    LET error == "user_effective_permissions" \in failed
        data == IF error THEN {} ELSE user_effective_permissions(userId, permissionName)
    IN  IF error THEN FALSE
        ELSE IF context = NoContext THEN data # {}
        ELSE IF ClubId(context) # NoClub
             THEN \E i \in ContextRows(userId, permissionName, failed) :
                    \/ user_permissions[i].context = NoContext
                    \/ ClubId(user_permissions[i].context) = NoClub
                    \/ ClubId(user_permissions[i].context) = ClubId(context)
        ELSE data # {}

\* hasPermission that asks for more than one effective row when no context is given
hasPermission_OffByOne(userId, permissionName, context, failed) ==
    LET user == IF "users" \in failed \/ userId \notin UserIds THEN NoRow ELSE users[userId].role
        error == "user_effective_permissions" \in failed
        data == IF error THEN {} ELSE user_effective_permissions(userId, permissionName)
    IN  IF user = "admin" THEN TRUE
        ELSE IF error THEN FALSE
        ELSE IF context = NoContext THEN Cardinality(data) > 1
        ELSE IF ClubId(context) # NoClub
             THEN \E i \in ContextRows(userId, permissionName, failed) :
                    \/ user_permissions[i].context = NoContext
                    \/ ClubId(user_permissions[i].context) = NoClub
                    \/ ClubId(user_permissions[i].context) = ClubId(context)
        ELSE data # {}

hasPermission(userId, permissionName, context, failed) ==
    LET user == IF "users" \in failed \/ userId \notin UserIds THEN NoRow ELSE users[userId].role
        error == "user_effective_permissions" \in failed
        data == IF error THEN {} ELSE user_effective_permissions(userId, permissionName)
    IN  IF user = "admin" THEN TRUE
        ELSE IF error THEN FALSE
        ELSE IF context = NoContext THEN data # {}
        ELSE IF ClubId(context) # NoClub
             THEN \E i \in ContextRows(userId, permissionName, failed) :
                    \/ user_permissions[i].context = NoContext
                    \/ ClubId(user_permissions[i].context) = NoClub
                    \/ ClubId(user_permissions[i].context) = ClubId(context)
        ELSE data # {}

\* grantPermission that reports success whatever the insert reported
grantPermission_IgnoresError(rows, userId, permissionName, grantedBy, expiresAt, context, failLookup, failInsert) ==
    LET permission == IF failLookup THEN NoId ELSE PermissionId(permissionName)
    IN  IF permission = NoId THEN [ret |-> FALSE, rows |-> rows]
        ELSE IF failInsert THEN [ret |-> TRUE, rows |-> rows]
        ELSE [ret |-> TRUE,
              rows |-> Append(rows, [user_id |-> userId,
                                     permission_id |-> permission,
                                     granted_by |-> grantedBy,
                                     expires_at |-> expiresAt,
                                     context |-> context,
                                     is_active |-> DefaultIsActive])]

\* the result of grantPermission on table `rows`: the returned boolean and the table
grantPermission(rows, userId, permissionName, grantedBy, expiresAt, context, failLookup, failInsert) ==
    LET permission == IF failLookup THEN NoId ELSE PermissionId(permissionName)
    IN  IF permission = NoId THEN [ret |-> FALSE, rows |-> rows]
        ELSE IF failInsert THEN [ret |-> FALSE, rows |-> rows]
        ELSE [ret |-> TRUE,
              rows |-> Append(rows, [user_id |-> userId,
                                     permission_id |-> permission,
                                     granted_by |-> grantedBy,
                                     expires_at |-> expiresAt,
                                     context |-> context,
                                     is_active |-> DefaultIsActive])]

\* update({ is_active: false }) on the rows at the positions `sel`
Deactivate(rows, sel) ==
    [i \in DOMAIN rows |-> IF i \in sel THEN [rows[i] EXCEPT !.is_active = FALSE] ELSE rows[i]]

\* revokePermission that deletes the rows instead of deactivating them
revokePermission_Deletes(rows, userId, permissionName, failLookup, failUpdate) ==
    LET permission == IF failLookup THEN NoId ELSE PermissionId(permissionName)
        Keep(r) == ~(r.user_id = userId /\ r.permission_id = permission)
    IN  IF permission = NoId THEN [ret |-> FALSE, rows |-> rows]
        ELSE IF failUpdate THEN [ret |-> FALSE, rows |-> rows]
        ELSE [ret |-> TRUE, rows |-> SelectSeq(rows, Keep)]

revokePermission(rows, userId, permissionName, failLookup, failUpdate) ==
    LET permission == IF failLookup THEN NoId ELSE PermissionId(permissionName)
        sel == {i \in DOMAIN rows :
                    rows[i].user_id = userId /\ rows[i].permission_id = permission}
    IN  IF permission = NoId THEN [ret |-> FALSE, rows |-> rows]
        ELSE IF failUpdate THEN [ret |-> FALSE, rows |-> rows]
        ELSE [ret |-> TRUE, rows |-> Deactivate(rows, sel)]

\* the loop of updateUserPermissions from position k; the insert of the
\* failAt-th name reports an error (0: none does)
RECURSIVE GrantAll(_, _, _, _, _, _)
GrantAll(rows, userId, permissionNames, grantedBy, k, failAt) ==
    IF k > Len(permissionNames) THEN [ret |-> TRUE, rows |-> rows]
    ELSE LET g == grantPermission(rows, userId, permissionNames[k], grantedBy,
                                  NoExpiry, NoContext, FALSE, k = failAt)
         IN  IF ~g.ret THEN [ret |-> FALSE, rows |-> g.rows]
             ELSE GrantAll(g.rows, userId, permissionNames, grantedBy, k + 1, failAt)

updateUserPermissions(rows, userId, permissionNames, grantedBy, failDeactivate, failAt) ==
    LET sel == {i \in DOMAIN rows : rows[i].user_id = userId}
        cleared == IF failDeactivate THEN rows ELSE Deactivate(rows, sel)
    IN  GrantAll(cleared, userId, permissionNames, grantedBy, 1, failAt)

----------------------------------------------------------------------------
(* Calls of the permission service *)

NoRead == "none"

Idle == [op |-> "none", userId |-> "", permissionName |-> "", permissionNames |-> <<>>,
         context |-> NoContext, failed |-> NoRead, ret |-> FALSE]

Call(op, userId, permissionName, context, failed, ret) ==
    [op |-> op, userId |-> userId, permissionName |-> permissionName, permissionNames |-> <<>>,
     context |-> context, failed |-> failed, ret |-> ret]

\* the reads a call of hasPermission performs when read `failed` reports an
\* error: the role lookup, then (unless it found an admin) the view, then
\* (unless the view failed, and with a clubId only) the two context lookups
ReadsOf(userId, context, failed) ==
    LET admin == users[userId].role = "admin" /\ failed # "users"
    IN  {"users"}
        \cup (IF admin THEN {} ELSE {"user_effective_permissions"})
        \cup (IF ~admin /\ failed # "user_effective_permissions" /\ ClubId(context) # NoClub
              THEN {"permissions", "user_permissions"} ELSE {})

Granter == "admin1"

HasPermission ==
    \E userId \in UserIds, permissionName \in DOMAIN permissions,
       context \in Contexts, failed \in Reads \cup {NoRead} :
        /\ last = Idle
        /\ failed \in ReadsOf(userId, context, failed) \cup {NoRead}
        /\ last' = Call("hasPermission", userId, permissionName, context, failed,
                        hasPermission(userId, permissionName, context,
                                      IF failed = NoRead THEN {} ELSE {failed}))
        /\ UNCHANGED <<user_permissions, now>>

FailedWrite(failLookup, failWrite) ==
    IF failLookup THEN "permissions" ELSE IF failWrite THEN "user_permissions" ELSE NoRead

\* the grants the administrators of the model make: any permission name
\* with or without a club to a member, one plain permission to an admin
GrantInputs ==
    {<<"member1", n, c>> : n \in PermissionNames, c \in StoredContexts}
    \cup {<<"admin1", "CREATE_CLUB", NoContext>>}

GrantPermission ==
    \E in \in GrantInputs, failLookup \in BOOLEAN, failInsert \in BOOLEAN :
        LET g == grantPermission(user_permissions, in[1], in[2], Granter,
                                 NoExpiry, in[3], failLookup, failInsert)
        IN  /\ last = Idle
            /\ ~(failLookup /\ failInsert)
            /\ Len(g.rows) <= MaxRows
            /\ user_permissions' = g.rows
            /\ last' = Call("grantPermission", in[1], in[2], in[3],
                            FailedWrite(failLookup, failInsert), g.ret)
            /\ UNCHANGED now

\* grantTemporaryPermission: grantPermission with expiresAt = now + durationMinutes
GrantTemporaryPermission ==
    \E userId \in {"member1"}, permissionName \in PermissionNames,
       durationMinutes \in {1}, failInsert \in BOOLEAN :
        LET g == grantPermission(user_permissions, userId, permissionName, Granter,
                                 now + durationMinutes, NoContext, FALSE, failInsert)
        IN  /\ last = Idle
            /\ now + durationMinutes <= MaxNow
            /\ Len(g.rows) <= MaxRows
            /\ user_permissions' = g.rows
            /\ last' = Call("grantTemporaryPermission", userId, permissionName, NoContext,
                            FailedWrite(FALSE, failInsert), g.ret)
            /\ UNCHANGED now

RevokePermission ==
    \E userId \in UserIds, permissionName \in PermissionNames,
       failLookup \in BOOLEAN, failUpdate \in BOOLEAN :
        LET r == revokePermission(user_permissions, userId, permissionName, failLookup, failUpdate)
        IN  /\ last = Idle
            /\ ~(failLookup /\ failUpdate)
            /\ user_permissions' = r.rows
            /\ last' = Call("revokePermission", userId, permissionName, NoContext,
                            FailedWrite(failLookup, failUpdate), r.ret)
            /\ UNCHANGED now

NameLists ==
    UNION {[1..n -> PermissionNames] : n \in 0..MaxNames}

UpdateUserPermissions ==
    \E userId \in {"member1"}, permissionNames \in NameLists,
       failDeactivate \in BOOLEAN, failAt \in 0..MaxNames :
        LET r == updateUserPermissions(user_permissions, userId, permissionNames, Granter,
                                       failDeactivate, failAt)
        IN  /\ last = Idle
            /\ failAt <= Len(permissionNames)
            /\ Len(r.rows) <= MaxRows
            /\ user_permissions' = r.rows
            /\ last' = [Call("updateUserPermissions", userId, "", NoContext,
                             FailedWrite(FALSE, failDeactivate \/ failAt > 0), r.ret)
                            EXCEPT !.permissionNames = permissionNames]
            /\ UNCHANGED now

\* the caller takes the returned value
Return ==
    /\ last # Idle
    /\ last' = Idle
    /\ UNCHANGED <<user_permissions, now>>

\* the clock of the store advances by one minute
Tick ==
    /\ last = Idle
    /\ now < MaxNow
    /\ now' = now + 1
    /\ UNCHANGED <<user_permissions, last>>

----------------------------------------------------------------------------
(* The fixed-window rate limiter *)

\* Date.now() when the process starts
StartMs == 1000 * 1000 * 1000

\* the clock of the limiter advances by this much in one step
TickMs == 30 * 1000

\* RATE_LIMIT_CONFIGS: the entry of the authentication endpoints, and the
\* configuration of the documented scenario (window 60 s, 5 requests)
RATE_LIMIT_CONFIGS ==
    [k \in {"/api/auth", "scenario"} |->
        IF k = "/api/auth"
        THEN [windowMs |-> 15 * 60 * 1000, maxRequests |-> 5]
        ELSE [windowMs |-> 60 * 1000, maxRequests |-> 5]]

\* Math.ceil(a / b) for b > 0
Ceil(a, b) == 0 - ((0 - a) \div b)

cleanupExpiredEntries(store, t) ==
    [k \in {x \in DOMAIN store : ~(t > store[x].resetTime)} |-> store[k]]

\* Map.set
Put(store, key, entry) ==
    [k \in DOMAIN store \cup {key} |-> IF k = key THEN entry ELSE store[k]]

\* rateLimitMiddleware without the expiry of windows: an entry, once made,
\* is counted against for ever
rateLimitMiddleware_NeverResets(store, configKey, identifier, t) ==
    LET config == RATE_LIMIT_CONFIGS[configKey]
        key == <<configKey, identifier>>
    IN  IF key \notin DOMAIN store
        THEN [allowed |-> TRUE, resetTime |-> t + config.windowMs,
              remaining |-> config.maxRequests - 1,
              store |-> Put(store, key, [count |-> 1, resetTime |-> t + config.windowMs])]
        ELSE IF store[key].count >= config.maxRequests
        THEN [allowed |-> FALSE, resetTime |-> store[key].resetTime, remaining |-> 0,
              store |-> store]
        ELSE [allowed |-> TRUE, resetTime |-> store[key].resetTime,
              remaining |-> config.maxRequests - (store[key].count + 1),
              store |-> Put(store, key, [store[key] EXCEPT !.count = @ + 1])]

\* rateLimitMiddleware with a limit that lets one request too many through
rateLimitMiddleware_OneTooMany(store, configKey, identifier, t) ==
    LET config == RATE_LIMIT_CONFIGS[configKey]
        key == <<configKey, identifier>>
        cleaned == cleanupExpiredEntries(store, t)
    IN  IF key \notin DOMAIN cleaned \/ t > cleaned[key].resetTime
        THEN [allowed |-> TRUE, resetTime |-> t + config.windowMs,
              remaining |-> config.maxRequests - 1,
              store |-> Put(cleaned, key, [count |-> 1, resetTime |-> t + config.windowMs])]
        ELSE IF cleaned[key].count > config.maxRequests
        THEN [allowed |-> FALSE, resetTime |-> cleaned[key].resetTime, remaining |-> 0,
              store |-> cleaned]
        ELSE [allowed |-> TRUE, resetTime |-> cleaned[key].resetTime,
              remaining |-> config.maxRequests - (cleaned[key].count + 1),
              store |-> Put(cleaned, key, [cleaned[key] EXCEPT !.count = @ + 1])]

\* the function createRateLimiter(configKey) returns, called at time t: the
\* result it resolves to and the store it leaves
rateLimitMiddleware(store, configKey, identifier, t) ==
    LET config == RATE_LIMIT_CONFIGS[configKey]
        key == <<configKey, identifier>>
        cleaned == cleanupExpiredEntries(store, t)
    IN  IF key \notin DOMAIN cleaned \/ t > cleaned[key].resetTime
        THEN [allowed |-> TRUE, resetTime |-> t + config.windowMs,
              remaining |-> config.maxRequests - 1,
              store |-> Put(cleaned, key, [count |-> 1, resetTime |-> t + config.windowMs])]
        ELSE IF cleaned[key].count >= config.maxRequests
        THEN [allowed |-> FALSE, resetTime |-> cleaned[key].resetTime, remaining |-> 0,
              store |-> cleaned]
        ELSE [allowed |-> TRUE, resetTime |-> cleaned[key].resetTime,
              remaining |-> config.maxRequests - (cleaned[key].count + 1),
              store |-> Put(cleaned, key, [cleaned[key] EXCEPT !.count = @ + 1])]

\* the Retry-After header with the operands of the subtraction swapped
RetryAfter_Swapped(resetTime, t) ==
    Ceil(t - resetTime, 1000)

\* the Retry-After header: Math.ceil((resetTime || 0 - Date.now()) / 1000),
\* in which the subtraction binds tighter than ||
RetryAfter(resetTime, t) ==
    Ceil(IF resetTime # 0 THEN resetTime ELSE 0 - t, 1000)

NoUser == "no_user"
NoRole == "no_role"
NoHeader == -1

\* an allowedRoles option that is not given
NoRoles == {NoRole}
ClientIP == "1.2.3.4"

\* the users authenticateRequest resolves a request to
AuthenticatedUsers == {"member1"}

\* withRateLimit that enforces the authentication before it consults the
\* limiter: a request of nobody is answered 401 and counted against no key
withRateLimit_AuthenticatesFirst(store, rateLimitKey, requiredRole, allowedRoles, user, t) ==
    LET identifier == IF user # NoUser THEN user ELSE ClientIP
        r == IF user = NoUser
             THEN [allowed |-> TRUE, resetTime |-> 0, remaining |-> 0, store |-> store]
             ELSE rateLimitMiddleware(store, rateLimitKey, identifier, t)
        status == IF user = NoUser THEN 401
                  ELSE IF ~r.allowed THEN 429
                  ELSE IF /\ requiredRole # NoRole
                          /\ users[user].role # requiredRole
                          /\ users[user].role # "admin" THEN 403
                  ELSE IF /\ allowedRoles # NoRoles
                          /\ users[user].role \notin allowedRoles
                          /\ users[user].role # "admin" THEN 403
                  ELSE 200
    IN  [store |-> r.store,
         response |-> [rateLimitKey |-> rateLimitKey,
                       identifier |-> identifier,
                       status |-> status,
                       retryAfter |-> IF ~r.allowed THEN RetryAfter(r.resetTime, t) ELSE NoHeader,
                       remaining |-> r.remaining]]

\* the response of the route withRateLimit(handler, options) to a request
\* that authenticates as `user` (or as nobody), at time t
withRateLimit(store, rateLimitKey, requiredRole, allowedRoles, user, t) ==
    LET identifier == IF user # NoUser THEN user ELSE ClientIP
        r == rateLimitMiddleware(store, rateLimitKey, identifier, t)
        status == IF ~r.allowed THEN 429
                  ELSE IF user = NoUser THEN 401
                  ELSE IF /\ requiredRole # NoRole
                          /\ users[user].role # requiredRole
                          /\ users[user].role # "admin" THEN 403
                  ELSE IF /\ allowedRoles # NoRoles
                          /\ users[user].role \notin allowedRoles
                          /\ users[user].role # "admin" THEN 403
                  ELSE 200
    IN  [store |-> r.store,
         response |-> [rateLimitKey |-> rateLimitKey,
                       identifier |-> identifier,
                       status |-> status,
                       retryAfter |-> IF ~r.allowed THEN RetryAfter(r.resetTime, t) ELSE NoHeader,
                       remaining |-> r.remaining]]

NoResponse == [rateLimitKey |-> "", identifier |-> "", status |-> 0,
               retryAfter |-> NoHeader, remaining |-> 0]

\* the requests of the model: anonymous requests to the authentication
\* routes, anonymous and authenticated requests to the scenario's routes
Requests ==
    {<<"/api/auth", NoUser>>} \cup
    {<<"scenario", u>> : u \in AuthenticatedUsers \cup {NoUser}}

\* the history of a key after one more answer: "rejected" while its latest
\* request was answered 429, "readmitted" when the request after a rejected
\* one was let through, "admitted" otherwise
Standing(hist, key, status) ==
    Put(hist, key,
        IF status = 429 THEN "rejected"
        ELSE IF key \in DOMAIN hist /\ hist[key] = "rejected" THEN "readmitted"
        ELSE "admitted")

\* the role options of the routes of the model, as <<requiredRole, allowedRoles>>
RoleOptions == {<<NoRole, NoRoles>>, <<"admin", NoRoles>>, <<NoRole, {"club_leader"}>>}

Request ==
    \E req \in Requests, roles \in RoleOptions :
        LET w == withRateLimit(rateLimitStore, req[1], roles[1], roles[2], req[2], nowMs)
        IN  /\ rateLimitStore' = w.store
            /\ response' = w.response
            /\ standing' = Standing(standing, <<w.response.rateLimitKey, w.response.identifier>>,
                                     w.response.status)
            /\ UNCHANGED nowMs

TickRate ==
    /\ nowMs < StartMs + MaxTicks * TickMs
    /\ nowMs' = nowMs + TickMs
    /\ UNCHANGED <<rateLimitStore, response, standing>>

\* a request to a route of the scenario that was wrapped with role options:
\* who it authenticates as and the options of the route
Limited(user, requiredRole, allowedRoles) ==
    [user |-> user, requiredRole |-> requiredRole, allowedRoles |-> allowedRoles]

NoLimited == Limited(NoUser, NoRole, NoRoles)

\* the requests to the routes with role options: of nobody and of a member
LimitedRequests == {<<"scenario", u>> : u \in AuthenticatedUsers \cup {NoUser}}

LimitedRequest ==
    \E req \in LimitedRequests, roles \in RoleOptions :
        LET w == withRateLimit(rateLimitStore, req[1], roles[1], roles[2], req[2], nowMs)
        IN  /\ rateLimitStore' = w.store
            /\ response' = w.response
            /\ standing' = Standing(standing, <<w.response.rateLimitKey, w.response.identifier>>,
                                     w.response.status)
            /\ limited' = Limited(req[2], roles[1], roles[2])
            /\ UNCHANGED nowMs

----------------------------------------------------------------------------
(* The response cache *)

\* CACHE_CONFIGS: time to live in milliseconds and the tags of each endpoint
CACHE_CONFIGS ==
    [e \in {"/api/notifications", "/api/clubs", "/api/tasks", "/api/meetings",
            "/api/admin/users", "/api/files"} |->
        CASE e = "/api/notifications" ->
                [ttl |-> 30 * 1000, tags |-> <<"notifications", "user-specific">>]
          [] e = "/api/clubs" ->
                [ttl |-> 5 * 60 * 1000, tags |-> <<"clubs", "public-data">>]
          [] e = "/api/tasks" ->
                [ttl |-> 2 * 60 * 1000, tags |-> <<"tasks", "user-specific">>]
          [] e = "/api/meetings" ->
                [ttl |-> 3 * 60 * 1000, tags |-> <<"meetings", "club-specific">>]
          [] e = "/api/admin/users" ->
                [ttl |-> 10 * 60 * 1000, tags |-> <<"users", "admin-data">>]
          [] e = "/api/files" ->
                [ttl |-> 5 * 60 * 1000, tags |-> <<"files", "club-specific">>]]

\* the elements of an array
Elements(seq) == {seq[i] : i \in DOMAIN seq}

\* Map.delete of a set of keys
Without(map, keys) == [k \in DOMAIN map \ keys |-> map[k]]

\* what ApiCache.get returns for a miss
NoData == "null"

\* ApiCache.set(key, data, config) at time t: the cache and the tag map it
\* leaves
set(c, tm, key, data, config, t) ==
    LET tags == Elements(config.tags)
    IN  [cache |-> Put(c, key, [data |-> data, timestamp |-> t, ttl |-> config.ttl]),
         tagMap |-> [g \in DOMAIN tm \cup tags |->
                        IF g \in tags
                        THEN (IF g \in DOMAIN tm THEN tm[g] ELSE {}) \cup {key}
                        ELSE tm[g]]]

\* ApiCache.get(key) at time t: what it returns and the cache it leaves
get(c, key, t) ==
    IF key \notin DOMAIN c
    THEN [ret |-> NoData, cache |-> c]
    ELSE IF t - c[key].timestamp > c[key].ttl
    THEN [ret |-> NoData, cache |-> Without(c, {key})]
    ELSE [ret |-> c[key].data, cache |-> c]

\* ApiCache.invalidate(key)
invalidate(c, tm, key) ==
    [cache |-> Without(c, {key}),
     tagMap |-> [g \in {x \in DOMAIN tm : tm[x] \ {key} # {}} |-> tm[g] \ {key}]]

\* ApiCache.invalidateByTag(tag): the number it returns, the cache and the
\* tag map it leaves
invalidateByTag(c, tm, tag) ==
    IF tag \notin DOMAIN tm
    THEN [ret |-> 0, cache |-> c, tagMap |-> tm]
    ELSE LET keys == tm[tag]
             others == Without(tm, {tag})
         IN  [ret |-> Cardinality(keys),
              cache |-> Without(c, keys),
              tagMap |-> [g \in {x \in DOMAIN others : others[x] \ keys # {}} |->
                            others[g] \ keys]]

\* the calls of ApiCache the model makes: two keys, two values, the
\* configurations of two endpoints that share a tag
Keys == {"k1", "k2"}
Data == {"v1", "v2"}
SetConfigs == {"/api/notifications", "/api/tasks"}
Tags == UNION {Elements(CACHE_CONFIGS[e].tags) : e \in SetConfigs}
NoTag == "no_tag"
NoKey == "no_key"

CacheCall(op, key, tag, data, ret) ==
    [op |-> op, key |-> key, tag |-> tag, data |-> data, ret |-> ret]

NoCacheCall == CacheCall("none", NoKey, NoTag, NoData, NoData)

\* the tags of the latest set, kept for the keys the cache holds
Registered(reg, c) == [k \in DOMAIN reg \cap DOMAIN c |-> reg[k]]

Set ==
    \E key \in Keys, data \in Data, e \in SetConfigs :
        LET r == set(cache, tagMap, key, data, CACHE_CONFIGS[e], cacheNow)
        IN  /\ cache' = r.cache
            /\ tagMap' = r.tagMap
            /\ registered' = Registered(Put(registered, key, Elements(CACHE_CONFIGS[e].tags)), r.cache)
            /\ cacheLast' = CacheCall("set", key, NoTag, data, NoData)
            /\ UNCHANGED <<cacheNow, served>>

Get ==
    \E key \in Keys :
        LET r == get(cache, key, cacheNow)
        IN  /\ cache' = r.cache
            /\ registered' = Registered(registered, r.cache)
            /\ cacheLast' = CacheCall("get", key, NoTag, NoData, r.ret)
            /\ UNCHANGED <<tagMap, cacheNow, served>>

Invalidate ==
    \E key \in Keys :
        LET r == invalidate(cache, tagMap, key)
        IN  /\ cache' = r.cache
            /\ tagMap' = r.tagMap
            /\ registered' = Registered(registered, r.cache)
            /\ cacheLast' = CacheCall("invalidate", key, NoTag, NoData, NoData)
            /\ UNCHANGED <<cacheNow, served>>

InvalidateByTag ==
    \E tag \in Tags :
        LET r == invalidateByTag(cache, tagMap, tag)
        IN  /\ cache' = r.cache
            /\ tagMap' = r.tagMap
            /\ registered' = Registered(registered, r.cache)
            /\ cacheLast' = CacheCall("invalidateByTag", NoKey, tag, NoData, r.ret)
            /\ UNCHANGED <<cacheNow, served>>

TickCache ==
    /\ cacheNow < StartMs + MaxCacheTicks * TickMs
    /\ cacheNow' = cacheNow + TickMs
    /\ UNCHANGED <<cache, tagMap, cacheLast, registered, served>>

----------------------------------------------------------------------------
(* Routes wrapped by withCache *)

\* `user` of a request that carries no user: user?.id and user?.role are
\* undefined
Anonymous == [id |-> "", role |-> ""]

\* url.searchParams.toString(): the characters of the query string, with
\* the colon percent-encoded
Encode(ch) == IF ch = ":" THEN "%3A" ELSE ch

RECURSIVE SearchParams(_)
SearchParams(chars) ==
    IF chars = <<>> THEN "" ELSE Encode(Head(chars)) \o SearchParams(Tail(chars))

\* no keyGenerator in the configuration
NoGenerator == "no_generator"

\* a keyGenerator of a customConfig: one that builds the key from the query
\* string of the request
QueryOnly == "query_only"

\* ApiCache.generateKey that leaves the user id out of the key
generateKey_NoUserId(endpoint, query, user, customGenerator) ==
    IF customGenerator # NoGenerator
    THEN endpoint \o ":" \o SearchParams(query)
    ELSE LET userRole == IF user.role # "" THEN user.role ELSE "guest"
         IN  endpoint \o ":" \o userRole \o ":" \o SearchParams(query)

\* ApiCache.generateKey(endpoint, request, user, customGenerator)
generateKey(endpoint, query, user, customGenerator) ==
    IF customGenerator # NoGenerator
    THEN endpoint \o ":" \o SearchParams(query)
    ELSE LET userId == IF user.id # "" THEN user.id ELSE "anonymous"
             userRole == IF user.role # "" THEN user.role ELSE "guest"
         IN  endpoint \o ":" \o userId \o ":" \o userRole \o ":" \o SearchParams(query)

\* the body a handler answers with: it is made for the endpoint, the user, the
\* role and the query of the request it serves
Body(endpoint, query, user) ==
    endpoint \o "|" \o user.id \o "|" \o user.role \o "|" \o SearchParams(query)

\* config.tags.forEach(tag => ApiCache.invalidateByTag(tag))
RECURSIVE InvalidateTags(_, _, _)
InvalidateTags(c, tm, tags) ==
    IF tags = <<>>
    THEN [cache |-> c, tagMap |-> tm]
    ELSE LET r == invalidateByTag(c, tm, Head(tags))
         IN  InvalidateTags(r.cache, r.tagMap, Tail(tags))

Mutations == {"POST", "PUT", "PATCH", "DELETE"}

CacheResponse(status, data, xcache, key) ==
    [status |-> status, data |-> data, xcache |-> xcache, key |-> key]

\* the route withCache(handler, options) serving a request at time t; `ok`
\* tells whether the handler answers 200 or 500, `skip` whether
\* options.skipCache is given and holds of the request
withCache(c, tm, options, method, query, user, ok, skip, t) ==
    LET config == CACHE_CONFIGS[options.endpoint]
        isMutation == method \in Mutations
        status == IF ok THEN 200 ELSE 500
        body == Body(options.endpoint, query, user)
    IN  IF options.skipCacheOnMutation # FALSE /\ isMutation
        THEN LET r == InvalidateTags(c, tm, config.tags)
             IN  IF status >= 200 /\ status < 300
                 THEN [cache |-> r.cache, tagMap |-> r.tagMap,
                       response |-> CacheResponse(status, body, "NONE", NoKey)]
                 ELSE [cache |-> c, tagMap |-> tm,
                       response |-> CacheResponse(status, body, "NONE", NoKey)]
        ELSE IF skip
        THEN [cache |-> c, tagMap |-> tm,
              response |-> CacheResponse(status, body, "NONE", NoKey)]
        ELSE LET cacheKey == generateKey(options.endpoint, query, user, options.keyGenerator)
                 g == get(c, cacheKey, t)
             IN  IF g.ret # NoData
                 THEN [cache |-> g.cache, tagMap |-> tm,
                       response |-> CacheResponse(200, g.ret, "HIT", cacheKey)]
                 ELSE IF method = "GET" /\ status >= 200 /\ status < 300
                 THEN LET r == set(g.cache, tm, cacheKey, body, config, t)
                      IN  [cache |-> r.cache, tagMap |-> r.tagMap,
                           response |-> CacheResponse(status, body, "MISS", cacheKey)]
                 ELSE [cache |-> g.cache, tagMap |-> tm,
                       response |-> CacheResponse(status, body, "NONE", NoKey)]

\* the options of the routes of the model
RouteOptions(endpoint, skipCacheOnMutation, keyGenerator) ==
    [endpoint |-> endpoint, skipCacheOnMutation |-> skipCacheOnMutation,
     keyGenerator |-> keyGenerator]

Notifications == RouteOptions("/api/notifications", TRUE, NoGenerator)
TasksCachedMutations == RouteOptions("/api/tasks", FALSE, NoGenerator)
ClubsByQuery == RouteOptions("/api/clubs", TRUE, QueryOnly)

Member1 == [id |-> "u1", role |-> "member"]
Leader1 == [id |-> "u1", role |-> "club_leader"]
Member2 == [id |-> "u2", role |-> "member"]

NoQuery == <<>>
SomeQuery == <<"q", "=", ":">>

\* the requests of the model, as <<options of the route, user, query>>: to
\* one route by users that differ in id, in role and in query, to a route of
\* another endpoint, and to a route with a keyGenerator
CachedRequests ==
    {<<Notifications, Member1, NoQuery>>, <<Notifications, Member2, NoQuery>>,
     <<Notifications, Leader1, NoQuery>>, <<Notifications, Member1, SomeQuery>>,
     <<TasksCachedMutations, Member1, NoQuery>>,
     <<ClubsByQuery, Member1, NoQuery>>, <<ClubsByQuery, Member2, NoQuery>>}

\* the methods, the handler's outcomes and the values of options.skipCache the
\* model serves a request with: a failing handler and a skipped cache are
\* tried for the requests of Member1 without a query
Methods == {"GET", "POST", "DELETE"}

Servings(req) ==
    {m \in Methods \X BOOLEAN \X BOOLEAN :
        /\ (~m[2] \/ m[3]) => (req[2] = Member1 /\ req[3] = NoQuery)
        /\ m[3] => m[1] = "GET"
        /\ m[1] = "DELETE" => req[1] = Notifications /\ req[2] = Member1}

CachedRequest ==
    \E req \in CachedRequests :
        \E m \in Servings(req) :
            LET method == m[1]
                ok == m[2]
                skip == m[3]
                w == withCache(cache, tagMap, req[1], method, req[3], req[2], ok, skip, cacheNow)
            IN  /\ Cardinality(DOMAIN w.cache) <= MaxEntries
                /\ cache' = w.cache
                /\ tagMap' = w.tagMap
                /\ served' = [options |-> req[1], method |-> method, user |-> req[2],
                              query |-> req[3], handled |-> IF ok THEN 200 ELSE 500,
                              response |-> w.response]
                /\ UNCHANGED <<cacheNow, cacheLast, registered>>

NoServed ==
    [options |-> RouteOptions("", TRUE, NoGenerator), method |-> "", user |-> Anonymous,
     query |-> NoQuery, handled |-> 0, response |-> CacheResponse(0, NoData, "NONE", NoKey)]

CacheInit ==
    /\ cache = <<>>
    /\ tagMap = <<>>
    /\ cacheNow = StartMs
    /\ cacheLast = NoCacheCall
    /\ registered = <<>>
    /\ served = NoServed

----------------------------------------------------------------------------
(* Authentication and authorization of the API routes, and the role guards *)

Roles == {"admin", "club_leader", "member"}

\* the rows of the users table the requests authenticate to: id -> role
profiles ==
    [u \in {"admin1", "leader1", "member1", "stale1"} |->
        CASE u = "admin1" -> "admin"
          [] u = "leader1" -> "club_leader"
          [] OTHER -> "member"]

\* the clubs table: id -> leader_id
clubs == [c \in {"clubA", "clubB"} |-> IF c = "clubA" THEN "leader1" ELSE NoUser]

\* clubs.select('id').eq('leader_id', id).single(), then leaderClub?.id
LeaderClub(id) ==
    IF \E c \in DOMAIN clubs : clubs[c] = id
    THEN CHOOSE c \in DOMAIN clubs : clubs[c] = id
    ELSE NoClub

\* the sessions of the requests: the users with a profile, a user of the
\* identity provider without a profile row, and no session
Sessions == DOMAIN profiles \cup {"ghost1", NoUser}

\* what can fail in authenticateRequest: getUser, the read of users, or the
\* creation of the client, which throws
AuthFailures == {NoRead, "getUser", "users", "createClient"}

\* the requests of the model, as <<session, failure>>: every session without
\* a failure, and the session of the admin with each failure
Attempts ==
    {<<session, NoRead>> : session \in Sessions} \cup
    {<<"admin1", failed>> : failed \in AuthFailures}

AuthenticatedUser(id, role, clubId) == [id |-> id, role |-> role, clubId |-> clubId]

\* user: null
NullUser == AuthenticatedUser(NoUser, NoRole, NoClub)

NoError == "no_error"

\* authenticateRequest(request) for a request with the session of `session`
authenticateRequest(session, active, failed) ==
    IF failed = "createClient"
    THEN [user |-> NullUser, error |-> "Authentication failed"]
    ELSE IF failed = "getUser" \/ session = NoUser
    THEN [user |-> NullUser, error |-> "Authentication required"]
    ELSE IF failed = "users" \/ session \notin DOMAIN profiles \/ ~active[session]
    THEN [user |-> NullUser, error |-> "User profile not found"]
    ELSE [user |-> AuthenticatedUser(session, profiles[session],
                        IF profiles[session] = "club_leader"
                        THEN LeaderClub(session) ELSE NoClub),
          error |-> NoError]

\* authorizeUser(user, allowedRoles, clubId); allowedRoles is NoRoles and
\* clubId is NoClub when the argument is undefined
authorizeUser(user, allowedRoles, clubId) ==
    IF user.role = "admin"
    THEN [authorized |-> TRUE, error |-> NoError]
    ELSE IF allowedRoles # NoRoles /\ user.role \notin allowedRoles
    THEN [authorized |-> FALSE, error |-> "Insufficient permissions"]
    ELSE IF clubId # NoClub /\ user.role = "club_leader" /\ user.clubId # clubId
    THEN [authorized |-> FALSE, error |-> "Club access denied"]
    ELSE [authorized |-> TRUE, error |-> NoError]

\* the options a route passes to withAuth
AuthOptions(requiredRole, allowedRoles) ==
    [requiredRole |-> requiredRole, allowedRoles |-> allowedRoles]

\* withAuth that calls the handler without the role check
withAuth_SkipsAuthorization(options, session, active, failed) ==
    LET a == authenticateRequest(session, active, failed)
    IN  IF a.user = NullUser \/ a.error # NoError
        THEN [status |-> 401, user |-> a.user, ran |-> FALSE]
        ELSE [status |-> 0, user |-> a.user, ran |-> TRUE]

\* withAuth(handler, options) up to the call of the handler: the status it
\* answers with when it does not call the handler, the user it passes to the
\* handler, and whether it calls it
withAuth(options, session, active, failed) ==
    LET a == authenticateRequest(session, active, failed)
    IN  IF a.user = NullUser \/ a.error # NoError
        THEN [status |-> 401, user |-> a.user, ran |-> FALSE]
        ELSE IF /\ options.allowedRoles # NoRoles
                /\ ~authorizeUser(a.user, options.allowedRoles, NoClub).authorized
        THEN [status |-> 403, user |-> a.user, ran |-> FALSE]
        ELSE [status |-> 0, user |-> a.user, ran |-> TRUE]

\* the answer of a route or of a guard: for a route `ran` tells whether
\* withAuth called the handler, for a guard whether it rendered its children
Answer(op, session, failed, role, options, club_id, status, ran) ==
    [op |-> op, session |-> session, failed |-> failed, role |-> role,
     options |-> options, club_id |-> club_id, status |-> status, ran |-> ran]

NoAnswer ==
    Answer("none", NoUser, NoRead, NoRole, AuthOptions(NoRole, NoRoles), NoClub, 0, FALSE)

\* the options of the admin routes
AdminOnly == AuthOptions("admin", NoRoles)

\* GET /api/admin/system: the statistics of the system
AdminSystemGet ==
    \E attempt \in Attempts, dbFails \in BOOLEAN :
        LET session == attempt[1]
            failed == attempt[2]
            w == withAuth(AdminOnly, session, is_active, failed)
            status == IF ~w.ran THEN w.status ELSE IF dbFails THEN 500 ELSE 200
        IN  /\ authLast' = Answer("GET /api/admin/system", session, failed,
                                  w.user.role, AdminOnly, NoClub, status, w.ran)
            /\ UNCHANGED <<is_active, tasks, activities>>

\* the users cleanup_inactive_users finds: active, last login over six
\* months ago
StaleUsers == {"stale1"}

MaintenanceActions ==
    {"cleanup_inactive_users", "cleanup_old_activities", "update_storage_stats"}

\* POST /api/admin/system: a maintenance action, which is logged in
\* activities; the activities of the model are less than a year old
AdminSystemPost ==
    \E attempt \in Attempts,
       action \in MaintenanceActions \cup {"no_such_action"}, dbFails \in BOOLEAN :
        LET session == attempt[1]
            failed == attempt[2]
            w == withAuth(AdminOnly, session, is_active, failed)
            status == IF ~w.ran THEN w.status
                      ELSE IF dbFails THEN 500
                      ELSE IF action \notin MaintenanceActions THEN 400
                      ELSE 200
        IN  /\ authLast' = Answer("POST /api/admin/system", session, failed,
                                  w.user.role, AdminOnly, NoClub, status, w.ran)
            /\ is_active' = IF status = 200 /\ action = "cleanup_inactive_users"
                            THEN [u \in DOMAIN is_active |->
                                    is_active[u] /\ u \notin StaleUsers]
                            ELSE is_active
            /\ activities' = IF status = 200
                             THEN activities \cup {w.user.id}
                             ELSE activities
            /\ UNCHANGED tasks

\* GET /api/admin/users: the list of users
AdminUsersGet ==
    \E attempt \in Attempts, dbFails \in BOOLEAN :
        LET session == attempt[1]
            failed == attempt[2]
            w == withAuth(AdminOnly, session, is_active, failed)
            status == IF ~w.ran THEN w.status ELSE IF dbFails THEN 500 ELSE 200
        IN  /\ authLast' = Answer("GET /api/admin/users", session, failed,
                                  w.user.role, AdminOnly, NoClub, status, w.ran)
            /\ UNCHANGED <<is_active, tasks, activities>>

\* the options of POST /api/tasks
TaskCreators == AuthOptions(NoRole, {"admin", "club_leader"})

\* the array ['admin', 'club_leader'] where authorizeUser expects the club
\* id: a value that is truthy and that no club id is identical to
RolesArray == "['admin','club_leader']"

\* the handler of POST /api/tasks: it calls authorizeUser(user, undefined,
\* ['admin', 'club_leader'], club_id), of which authorizeUser takes the first
\* three arguments
PostTaskHandler(user, club_id, validDate, dbFails) ==
    IF ~authorizeUser(user, NoRoles, RolesArray).authorized THEN 403
    ELSE IF ~validDate THEN 400
    ELSE IF dbFails THEN 500
    ELSE 200

\* POST /api/tasks
PostTask ==
    \E attempt \in Attempts, club_id \in DOMAIN clubs,
       validDate \in BOOLEAN, dbFails \in BOOLEAN :
        LET session == attempt[1]
            failed == attempt[2]
            w == withAuth(TaskCreators, session, is_active, failed)
            status == IF ~w.ran THEN w.status
                      ELSE PostTaskHandler(w.user, club_id, validDate, dbFails)
        IN  /\ authLast' = Answer("POST /api/tasks", session, failed, w.user.role,
                                  TaskCreators, club_id, status, w.ran)
            /\ tasks' = IF status = 200 THEN tasks \cup {<<w.user.id, club_id>>} ELSE tasks
            /\ UNCHANGED <<is_active, activities>>

\* the allowedRoles a route or a guard is given in the model
AllowedRolesOptions == {NoRoles, {"admin", "club_leader"}, {"club_leader", "member"}, {"member"}}

\* a route withAuth(handler, {allowedRoles}) whose handler answers 200
WrappedRequest ==
    \E attempt \in Attempts, allowedRoles \in AllowedRolesOptions :
        LET session == attempt[1]
            failed == attempt[2]
            options == AuthOptions(NoRole, allowedRoles)
            w == withAuth(options, session, is_active, failed)
        IN  /\ authLast' = Answer("withAuth", session, failed, w.user.role, options,
                                  NoClub, IF w.ran THEN 200 ELSE w.status, w.ran)
            /\ UNCHANGED <<is_active, tasks, activities>>

\* hasAccess of SimpleRoleGuard for a user that is loaded
SimpleRoleGuard(role, requiredRole, allowedRoles) ==
    IF requiredRole # NoRole THEN role = requiredRole \/ role = "admin"
    ELSE IF allowedRoles # NoRoles THEN role \in allowedRoles
    ELSE TRUE

\* hasAccess of PermissionGuard for a user that is loaded
PermissionGuard(role, requiredRole, allowedRoles) ==
    IF allowedRoles # NoRoles THEN role \in allowedRoles
    ELSE IF requiredRole # NoRole THEN role = requiredRole \/ role = "admin"
    ELSE TRUE

\* a page renders a guard for the user the auth hook has loaded
\* the role options the pages give a guard, as <<requiredRole, allowedRoles>>
GuardOptions ==
    {<<NoRole, NoRoles>>, <<"admin", NoRoles>>, <<"club_leader", NoRoles>>,
     <<NoRole, {"admin", "club_leader"}>>, <<NoRole, {"club_leader", "member"}>>,
     <<"admin", {"member"}>>}

RenderGuard ==
    \E guard \in {"SimpleRoleGuard", "PermissionGuard"},
       session \in {"admin1", "leader1", "member1"}, roles \in GuardOptions :
        LET role == profiles[session]
            requiredRole == roles[1]
            allowedRoles == roles[2]
            hasAccess == IF guard = "SimpleRoleGuard"
                         THEN SimpleRoleGuard(role, requiredRole, allowedRoles)
                         ELSE PermissionGuard(role, requiredRole, allowedRoles)
        IN  /\ is_active[session]
            /\ authLast' = Answer(guard, session, NoRead, role,
                                  AuthOptions(requiredRole, allowedRoles), NoClub, 0, hasAccess)
            /\ UNCHANGED <<is_active, tasks, activities>>

AuthInit ==
    /\ is_active = [u \in DOMAIN profiles |-> TRUE]
    /\ tasks = {}
    /\ activities = {}
    /\ authLast = NoAnswer

----------------------------------------------------------------------------
(* The auth bootstrap of the browser: the useAuth hook of a component, the
   auth store, and the global singleton hook *)

Implementations == {"hook", "store", "singleton"}

\* a row of the users table
UserRow(role, active) == [role |-> role, is_active |-> active]

\* the club_members table: user_id -> club_id
club_members == [u \in {"member1"} |-> "clubB"]

\* club_members.select('club_id').eq('user_id', id).single(), then
\* memberShip?.club_id
MemberClub(id) == IF id \in DOMAIN club_members THEN club_members[id] ELSE NoClub

\* the user of an AuthState
Profile(id, role, active, clubId) ==
    [id |-> id, role |-> role, is_active |-> active, clubId |-> clubId]

\* user: null
NoProfile == Profile(NoUser, NoRole, FALSE, NoClub)

AuthState(user, isLoading, error, initialized) ==
    [user |-> user, isLoading |-> isLoading, error |-> error, initialized |-> initialized]

\* what can fail in a bootstrap: the request of the session, the read of the
\* profile row (with another error than the one of a missing row), the insert
\* of the new row
BootFailures == {NoRead, "session", "users", "insert"}

\* fetchUserProfile(authUser) of the hook of a component and of the auth
\* store: the profile it resolves to (NoProfile for null) and the users table
\* it leaves
fetchUserProfile(rows, id, failed) ==
    IF failed = "users"
    THEN [profile |-> NoProfile, rows |-> rows]
    ELSE IF id \notin DOMAIN rows
    THEN IF failed = "insert"
         THEN [profile |-> NoProfile, rows |-> rows]
         ELSE [profile |-> Profile(id, "member", TRUE, NoClub),
               rows |-> Put(rows, id, UserRow("member", TRUE))]
    ELSE IF ~rows[id].is_active
    THEN [profile |-> NoProfile, rows |-> rows]
    ELSE [profile |-> Profile(id, rows[id].role, rows[id].is_active,
                        IF rows[id].role = "club_leader" THEN LeaderClub(id) ELSE NoClub),
          rows |-> rows]

\* fetchUserProfile(authUser) of the global singleton hook: every error of
\* the read, the one of a missing row included, is thrown and caught
fetchUserProfileGlobal(rows, id, failed) ==
    IF failed = "users" \/ id \notin DOMAIN rows
    THEN NoProfile
    ELSE Profile(id, rows[id].role, rows[id].is_active,
                 IF rows[id].role = "club_leader" THEN LeaderClub(id)
                 ELSE IF rows[id].role = "member" THEN MemberClub(id)
                 ELSE NoClub)

\* initAuth of the hook of a component and of the auth store, for a browser
\* with the session of `session`: the AuthState and the users table it leaves
initAuth(rows, session, failed) ==
    IF failed = "session" \/ session = NoUser
    THEN [state |-> AuthState(NoProfile, FALSE, NoError, TRUE), rows |-> rows]
    ELSE LET f == fetchUserProfile(rows, session, failed)
         IN  [state |-> AuthState(f.profile, FALSE,
                            IF f.profile # NoProfile THEN NoError ELSE "Profile not found",
                            TRUE),
              rows |-> f.rows]

\* initializeAuth of the global singleton hook, which handles the session as
\* the event INITIAL_SESSION
initializeAuth(rows, session, failed) ==
    IF failed = "session"
    THEN AuthState(NoProfile, FALSE, "Session initialization failed", TRUE)
    ELSE IF session = NoUser
    THEN AuthState(NoProfile, FALSE, NoError, TRUE)
    ELSE AuthState(fetchUserProfileGlobal(rows, session, failed), FALSE, NoError, TRUE)

\* the sessions of the browser: a user of the identity provider without a
\* profile row, users with a row, and no session
BootSessions == {"new1", "member1", "leader1", "stale1", NoUser}

\* the bootstraps of the model, as <<session, failure>>
Boots ==
    {<<session, NoRead>> : session \in BootSessions} \cup
    {<<"new1", failed>> : failed \in BootFailures}

Boot(implementation, session, failed) ==
    [implementation |-> implementation, session |-> session, failed |-> failed]

NoBoot == Boot("none", NoUser, NoRead)

\* a component that uses the hook mounts
MountHook ==
    \E b \in Boots :
        LET r == initAuth(userRows, b[1], b[2])
        IN  /\ userRows' = r.rows
            /\ authState' = [authState EXCEPT !["hook"] = r.state]
            /\ booted' = Boot("hook", b[1], b[2])
            /\ UNCHANGED globalAuthInitialized

\* the application calls initAuth of the auth store
InitStore ==
    \E b \in Boots :
        LET r == initAuth(userRows, b[1], b[2])
        IN  /\ userRows' = r.rows
            /\ authState' = [authState EXCEPT !["store"] = r.state]
            /\ booted' = Boot("store", b[1], b[2])
            /\ UNCHANGED globalAuthInitialized

\* the first component that uses the global singleton hook mounts
MountSingleton ==
    \E b \in Boots :
        /\ ~globalAuthInitialized
        /\ globalAuthInitialized' = TRUE
        /\ authState' = [authState EXCEPT !["singleton"] = initializeAuth(userRows, b[1], b[2])]
        /\ booted' = Boot("singleton", b[1], b[2])
        /\ UNCHANGED userRows

\* the last component that uses the global singleton hook unmounts
UnmountSingleton ==
    /\ globalAuthInitialized
    /\ globalAuthInitialized' = FALSE
    /\ booted' = NoBoot
    /\ UNCHANGED <<userRows, authState>>

BootInit ==
    /\ userRows = [u \in {"member1", "leader1", "stale1"} |->
                    IF u = "leader1" THEN UserRow("club_leader", TRUE)
                    ELSE UserRow("member", u # "stale1")]
    /\ authState = [i \in Implementations |-> AuthState(NoProfile, TRUE, NoError, FALSE)]
    /\ globalAuthInitialized = FALSE
    /\ booted = NoBoot

----------------------------------------------------------------------------
(* The permission cache (lib/permissions-advanced.ts) *)

CACHE_DURATION == 5 * 60 * 1000

\* the clock of the permission cache advances by this much in one step
MinuteMs == 60 * 1000

NoTime == -1

\* the users whose permissions are asked for, and the permission that is
\* granted to and revoked from them meanwhile
CachedUsers == {"member1"}
CachedName == "CREATE_CLUB"

\* getUserEffectivePermissions(userId) mapped to the names of its rows
EffectiveNames(userId) ==
    {n \in DOMAIN permissions : user_effective_permissions(userId, n) # {}}

\* a call of PermissionCache: for getUserPermissions the list it resolved to,
\* whether it fetched the list, when the list was read from the store, and
\* whether it was the first call for the user since an invalidation
PermCall(op, userId, forceRefresh, names, refetched, read, first) ==
    [op |-> op, userId |-> userId, forceRefresh |-> forceRefresh,
     permissions |-> names, refetched |-> refetched, readAt |-> read, first |-> first]

NoPermCall == PermCall("none", "", FALSE, {}, FALSE, NoTime, FALSE)

\* getUserPermissions up to its await: a cached list that has not expired is
\* returned unless forceRefresh, otherwise the fresh permissions are asked for
BeginGetUserPermissions ==
    \E userId \in CachedUsers, forceRefresh \in BOOLEAN :
        LET cached == userId \in DOMAIN permissionCache
            first == userId \in invalidated
        IN  /\ invalidated' = invalidated \ {userId}
            /\ IF ~forceRefresh /\ cached /\ permissionCache[userId].expires > permNow
               THEN /\ permLast' = PermCall("getUserPermissions", userId, forceRefresh,
                                            permissionCache[userId].permissions, FALSE,
                                            readAt[userId], first)
                    /\ UNCHANGED fetching
               ELSE /\ Cardinality(fetching) < MaxFetching
                    /\ fetching' = fetching \cup
                            {[userId |-> userId, forceRefresh |-> forceRefresh,
                              permissions |-> EffectiveNames(userId),
                              readAt |-> permNow, first |-> first]}
                    /\ permLast' = PermCall("fetch", userId, forceRefresh, {}, TRUE,
                                            permNow, first)
            /\ UNCHANGED <<permissionCache, permNow, readAt, revokedAt, user_permissions>>

\* getUserPermissions after its await: the fetch throws, or the list is cached
\* for CACHE_DURATION from now and returned
EndGetUserPermissions ==
    \E f \in fetching, failed \in BOOLEAN :
        /\ fetching' = fetching \ {f}
        /\ IF failed
           THEN /\ permLast' = PermCall("throw", f.userId, f.forceRefresh, {}, TRUE,
                                        f.readAt, f.first)
                /\ UNCHANGED <<permissionCache, readAt>>
           ELSE /\ permissionCache' =
                        Put(permissionCache, f.userId,
                            [permissions |-> f.permissions,
                             expires |-> permNow + CACHE_DURATION,
                             version |-> permNow])
                /\ readAt' = Put(readAt, f.userId, f.readAt)
                /\ permLast' = PermCall("getUserPermissions", f.userId, f.forceRefresh,
                                        f.permissions, TRUE, f.readAt, f.first)
        /\ UNCHANGED <<permNow, revokedAt, invalidated, user_permissions>>

InvalidateUser ==
    \E userId \in CachedUsers :
        /\ permissionCache' = Without(permissionCache, {userId})
        /\ invalidated' = invalidated \cup {userId}
        /\ permLast' = PermCall("invalidateUser", userId, FALSE, {}, FALSE, NoTime, FALSE)
        /\ UNCHANGED <<fetching, permNow, readAt, revokedAt, user_permissions>>

InvalidateAll ==
    /\ permissionCache' = <<>>
    /\ invalidated' = CachedUsers
    /\ permLast' = PermCall("invalidateAll", "", FALSE, {}, FALSE, NoTime, FALSE)
    /\ UNCHANGED <<fetching, permNow, readAt, revokedAt, user_permissions>>

\* grantPermission(user, CachedName, admin) while the cache is in use
GrantCached ==
    \E userId \in CachedUsers :
        LET g == grantPermission(user_permissions, userId, CachedName, Granter,
                                 NoExpiry, NoContext, FALSE, FALSE)
        IN  /\ Len(g.rows) <= MaxRows
            /\ user_permissions' = g.rows
            /\ revokedAt' = NoTime
            /\ UNCHANGED <<permissionCache, fetching, permNow, permLast, readAt, invalidated>>

\* revokePermission(user, CachedName) while the cache is in use
RevokeCached ==
    \E userId \in CachedUsers, failUpdate \in BOOLEAN :
        LET r == revokePermission(user_permissions, userId, CachedName, FALSE, failUpdate)
        IN  /\ user_permissions' = r.rows
            /\ revokedAt' = IF r.ret THEN permNow ELSE revokedAt
            /\ UNCHANGED <<permissionCache, fetching, permNow, permLast, readAt, invalidated>>

TickPerm ==
    /\ permNow < StartMs + MaxMinutes * MinuteMs
    /\ permNow' = permNow + MinuteMs
    /\ UNCHANGED <<permissionCache, fetching, permLast, readAt, revokedAt, invalidated,
                   user_permissions>>

PermCacheInit ==
    /\ permissionCache = <<>>
    /\ fetching = {}
    /\ permNow = StartMs
    /\ permLast = NoPermCall
    /\ readAt = <<>>
    /\ revokedAt = NoTime
    /\ invalidated = {}

----------------------------------------------------------------------------
(* Adding a member to a club: POST /api/clubs/[id]/members *)

\* clubs.settings and clubs.is_active of the clubs
clubSettings ==
    [c \in DOMAIN clubs |->
        IF c = "clubA" THEN [maxMembers |-> 2, is_active |-> TRUE]
        ELSE [maxMembers |-> 0, is_active |-> FALSE]]

\* isClubLeader(clubId, userId)
isClubLeader(clubId, userId) ==
    clubId \in DOMAIN clubs /\ clubs[clubId] = userId

\* the rows of club_members with the club_id, and with the club_id and user_id
RowsOfClub(rows, clubId) ==
    {i \in DOMAIN rows : rows[i][1] = clubId}

RowsOfMember(rows, clubId, userId) ==
    {i \in DOMAIN rows : rows[i] = <<clubId, userId>>}

\* a request of `actor` to add user_id to the club, at position pc; status is
\* the response once it is done
Adding(actor, clubId, userId, pc, status) ==
    [actor |-> actor, clubId |-> clubId, user_id |-> userId, pc |-> pc, status |-> status]

NotAdding == Adding(NoUser, NoClub, NoUser, "idle", 0)

\* the requests of the model, as <<authenticated user, club, user_id of the body>>
Adds ==
    {<<"member1", "clubA", "member1">>, <<"stale1", "clubA", "stale1">>,
     <<"leader1", "clubA", "member1">>, <<"admin1", "clubA", "leader1">>,
     <<"member1", "clubA", "leader1">>, <<"member1", "clubB", "member1">>}

\* the request is received: the authorization, then the reads of the club
\* and of the user to add
StartAdd ==
    \E r \in DOMAIN adding, in \in Adds :
        LET actor == in[1]
            clubId == in[2]
            userId == in[3]
            canAdd == \/ profiles[actor] = "admin"
                      \/ isClubLeader(clubId, actor)
                      \/ userId = actor
            club == clubId \in DOMAIN clubs /\ clubSettings[clubId].is_active
            targetUser == userId \in DOMAIN is_active /\ is_active[userId]
        IN  /\ adding[r].pc = "idle"
            /\ \A q \in DOMAIN adding : q < r => adding[q].pc # "idle"
            /\ adding' = [adding EXCEPT ![r] =
                    IF ~canAdd THEN Adding(actor, clubId, userId, "done", 403)
                    ELSE IF ~club THEN Adding(actor, clubId, userId, "done", 404)
                    ELSE IF ~targetUser THEN Adding(actor, clubId, userId, "done", 404)
                    ELSE Adding(actor, clubId, userId, "existing", 0)]
            /\ UNCHANGED memberRows

\* the read of the membership of the user: .single() yields the row when
\* there is exactly one
CheckExistingMember ==
    \E r \in DOMAIN adding :
        LET existingMember ==
                Cardinality(RowsOfMember(memberRows, adding[r].clubId, adding[r].user_id)) = 1
        IN  /\ adding[r].pc = "existing"
            /\ adding' = [adding EXCEPT ![r] =
                    IF existingMember THEN [@ EXCEPT !.pc = "done", !.status = 400]
                    ELSE IF clubSettings[@.clubId].maxMembers # 0
                    THEN [@ EXCEPT !.pc = "limit"]
                    ELSE [@ EXCEPT !.pc = "insert"]]
            /\ UNCHANGED memberRows

\* the count of the members of the club against settings.maxMembers
CheckMemberLimit ==
    \E r \in DOMAIN adding :
        LET count == Cardinality(RowsOfClub(memberRows, adding[r].clubId))
        IN  /\ adding[r].pc = "limit"
            /\ adding' = [adding EXCEPT ![r] =
                    IF count # 0 /\ count >= clubSettings[@.clubId].maxMembers
                    THEN [@ EXCEPT !.pc = "done", !.status = 400]
                    ELSE [@ EXCEPT !.pc = "insert"]]
            /\ UNCHANGED memberRows

\* the insert into club_members, which may report an error
InsertMember ==
    \E r \in DOMAIN adding, failed \in BOOLEAN :
        /\ adding[r].pc = "insert"
        /\ IF failed
           THEN /\ adding' = [adding EXCEPT ![r] = [@ EXCEPT !.pc = "done", !.status = 500]]
                /\ UNCHANGED memberRows
           ELSE /\ adding' = [adding EXCEPT ![r] = [@ EXCEPT !.pc = "done", !.status = 200]]
                /\ memberRows' = Append(memberRows, <<adding[r].clubId, adding[r].user_id>>)

MemberInit ==
    /\ memberRows = <<>>
    /\ adding = [r \in 1..MaxAdds |-> NotAdding]

----------------------------------------------------------------------------
(* Requests through withCache that overlap: the handler is awaited, and
   other requests are served meanwhile *)

\* the route of the overlapping requests and its users
OverlapRoute == Notifications
OverlapUsers == {Member1}

\* the numeral of a revision
Numeral(n) == <<"0", "1", "2", "3", "4", "5">>[n + 1]

\* the body the handler of a GET answers with when it reads revision n of
\* the data
BodyAt(user, n) ==
    Body(OverlapRoute.endpoint, NoQuery, user) \o "#" \o Numeral(n)

\* a request whose handler is awaited: the handler of a GET has read
\* revision rev, that of a mutation has written it; `after` is the revision
\* of the latest mutation that had returned when the request was received
Handling(method, user, key, rev, status, after) ==
    [method |-> method, user |-> user, key |-> key, rev |-> rev, status |-> status,
     after |-> after]

\* a response of the route
Answered(method, status, data, xcache, after) ==
    [method |-> method, status |-> status, data |-> data, xcache |-> xcache, after |-> after]

NotAnswered == Answered("", 0, NoData, "NONE", 0)

\* withCache for a GET up to `await handler(...)`: a cached entry is
\* answered, otherwise the handler is called and reads the data
BeginGet ==
    \E user \in OverlapUsers :
        LET cacheKey == generateKey(OverlapRoute.endpoint, NoQuery, user,
                                    OverlapRoute.keyGenerator)
            g == get(cache, cacheKey, cacheNow)
        IN  /\ cache' = g.cache
            /\ IF g.ret # NoData
               THEN /\ answered' = Answered("GET", 200, g.ret, "HIT", completed)
                    /\ UNCHANGED handling
               ELSE /\ Cardinality(handling) < MaxHandling
                    /\ handling' = handling \cup
                            {Handling("GET", user, cacheKey, resource, 200, completed)}
                    /\ UNCHANGED answered
            /\ UNCHANGED <<tagMap, cacheNow, cacheLast, registered, served, resource, completed>>

\* withCache for a GET after the await: a response of 200 is cached
EndGet ==
    \E h \in handling, ok \in BOOLEAN :
        LET config == CACHE_CONFIGS[OverlapRoute.endpoint]
            body == BodyAt(h.user, h.rev)
            r == set(cache, tagMap, h.key, body, config, cacheNow)
        IN  /\ h.method = "GET"
            /\ handling' = handling \ {h}
            /\ IF ok
               THEN /\ cache' = r.cache
                    /\ tagMap' = r.tagMap
                    /\ answered' = Answered("GET", 200, body, "MISS", h.after)
               ELSE /\ answered' = Answered("GET", 500, NoData, "NONE", h.after)
                    /\ UNCHANGED <<cache, tagMap>>
            /\ UNCHANGED <<cacheNow, cacheLast, registered, served, resource, completed>>

\* withCache for a mutation up to the await: the handler is called and, when
\* it succeeds, writes the data
BeginMutation ==
    \E user \in OverlapUsers, ok \in BOOLEAN :
        /\ Cardinality(handling) < MaxHandling
        /\ IF ok
           THEN /\ resource < MaxMutations
                /\ resource' = resource + 1
                /\ handling' = handling \cup
                        {Handling("POST", user, NoKey, resource + 1, 200, completed)}
           ELSE /\ handling' = handling \cup
                        {Handling("POST", user, NoKey, resource, 500, completed)}
                /\ UNCHANGED resource
        /\ UNCHANGED <<cache, tagMap, cacheNow, cacheLast, registered, served, completed, answered>>

\* withCache for a mutation after the await: a response of 2xx invalidates
\* the tags of the endpoint
EndMutation ==
    \E h \in handling :
        LET config == CACHE_CONFIGS[OverlapRoute.endpoint]
            r == InvalidateTags(cache, tagMap, config.tags)
        IN  /\ h.method = "POST"
            /\ handling' = handling \ {h}
            /\ IF h.status >= 200 /\ h.status < 300
               THEN /\ cache' = r.cache
                    /\ tagMap' = r.tagMap
                    /\ completed' = IF h.rev > completed THEN h.rev ELSE completed
               ELSE UNCHANGED <<cache, tagMap, completed>>
            /\ answered' = Answered("POST", h.status, NoData, "NONE", h.after)
            /\ UNCHANGED <<cacheNow, cacheLast, registered, served, resource>>

OverlapInit ==
    /\ resource = 0
    /\ handling = {}
    /\ completed = 0
    /\ answered = NotAnswered

----------------------------------------------------------------------------
(* The subscriptions to the session changes of the identity provider: the
   effect of the global singleton hook, and initAuthListener of the store *)

NoSubscription == "null"
Subscribed == "subscription"

\* the components that use the global singleton hook
Components == 1..MaxComponents

\* the effect of useAuth when component c mounts: what it leaves of the
\* globals and of the callbacks the identity provider holds, and whether it
\* called initializeAuth
useAuthEffect(c, listeners, initialized, subscription, held) ==
    IF ~initialized
    THEN [globalListeners |-> listeners \cup {c}, initialize |-> TRUE,
          globalAuthInitialized |-> TRUE, globalSubscription |-> Subscribed,
          callbacks |-> held + 1]
    ELSE [globalListeners |-> listeners \cup {c}, initialize |-> FALSE,
          globalAuthInitialized |-> initialized, globalSubscription |-> subscription,
          callbacks |-> held]

\* the cleanup of the effect without the call of unsubscribe
useAuthCleanup_KeepsCallback(c, listeners, initialized, subscription, held) ==
    LET rest == listeners \ {c}
    IN  IF rest = {} /\ subscription # NoSubscription
        THEN [globalListeners |-> rest, globalAuthInitialized |-> FALSE,
              globalSubscription |-> NoSubscription, callbacks |-> held]
        ELSE [globalListeners |-> rest, globalAuthInitialized |-> initialized,
              globalSubscription |-> subscription, callbacks |-> held]

\* the cleanup of the effect when component c unmounts
useAuthCleanup(c, listeners, initialized, subscription, held) ==
    LET rest == listeners \ {c}
    IN  IF rest = {} /\ subscription # NoSubscription
        THEN [globalListeners |-> rest, globalAuthInitialized |-> FALSE,
              globalSubscription |-> NoSubscription, callbacks |-> held - 1]
        ELSE [globalListeners |-> rest, globalAuthInitialized |-> initialized,
              globalSubscription |-> subscription, callbacks |-> held]

\* initAuthListener(): the flag and the callbacks of the store it leaves
initAuthListener(initialized, held) ==
    IF initialized
    THEN [authListenerInitialized |-> initialized, callbacks |-> held]
    ELSE [authListenerInitialized |-> TRUE, callbacks |-> held + 1]

\* a component that uses the global singleton hook mounts, in a browser with
\* some session; the first one initializes the auth state
MountComponent ==
    \E c \in Components \ globalListeners, b \in Boots :
        LET e == useAuthEffect(c, globalListeners, globalAuthInitialized, globalSubscription,
                               callbacks.singleton)
        IN  /\ globalListeners' = e.globalListeners
            /\ globalAuthInitialized' = e.globalAuthInitialized
            /\ globalSubscription' = e.globalSubscription
            /\ callbacks' = [callbacks EXCEPT !.singleton = e.callbacks]
            /\ IF e.initialize
               THEN /\ authState' = [authState EXCEPT
                            !["singleton"] = initializeAuth(userRows, b[1], b[2])]
                    /\ booted' = Boot("singleton", b[1], b[2])
               ELSE UNCHANGED <<authState, booted>>
            /\ UNCHANGED <<userRows, authListenerInitialized, resubscribed>>

UnmountComponent ==
    \E c \in globalListeners :
        LET e == useAuthCleanup(c, globalListeners, globalAuthInitialized, globalSubscription,
                                callbacks.singleton)
        IN  /\ globalListeners' = e.globalListeners
            /\ globalAuthInitialized' = e.globalAuthInitialized
            /\ globalSubscription' = e.globalSubscription
            /\ callbacks' = [callbacks EXCEPT !.singleton = e.callbacks]
            /\ resubscribed' = (resubscribed \/ e.globalSubscription # globalSubscription)
            /\ UNCHANGED <<userRows, authState, booted, authListenerInitialized>>

\* AuthProvider, or anything else, calls initAuthListener
InitAuthListener ==
    LET l == initAuthListener(authListenerInitialized, callbacks.store)
    IN  /\ authListenerInitialized' = l.authListenerInitialized
        /\ callbacks' = [callbacks EXCEPT !.store = l.callbacks]
        /\ UNCHANGED <<userRows, authState, booted, globalAuthInitialized, globalListeners,
                       globalSubscription, resubscribed>>

SubscriptionInit ==
    /\ globalListeners = {}
    /\ globalSubscription = NoSubscription
    /\ authListenerInitialized = FALSE
    /\ callbacks = [singleton |-> 0, store |-> 0]
    /\ resubscribed = FALSE

----------------------------------------------------------------------------
(* The session changes of the identity provider, and their handlers in the
   hook of a component, the auth store and the global singleton hook *)

\* the users who sign in and out in the browser
SessionUsers == {"member1", "leader1"}

\* a handler that awaits the profile of `user`
Handler(event, user) == [event |-> event, user |-> user]

\* the handling that has just finished: by which implementations, of which
\* event, for which user, with which failure of the read of the profile
Handled(implementations, event, user, failed) ==
    [implementations |-> implementations, event |-> event, user |-> user, failed |-> failed]

NoHandled == Handled({}, "none", NoUser, NoRead)

\* what the profile read can do in a handler
FetchFailures == {NoRead, "users"}

\* the AuthState the store has after the page loads: persist keeps user and
\* initialized, the rest is the initial state
Rehydrated(state) == AuthState(state.user, TRUE, NoError, state.initialized)

\* the callback of onAuthStateChange of the hook of a component and of the
\* auth store, once its profile read has returned: the AuthState and the
\* users table it leaves
onAuthStateChange(state, event, rows, user, failed) ==
    IF event = "SIGNED_IN" /\ user # NoUser
    THEN LET f == fetchUserProfile(rows, user, failed)
         IN  [state |-> AuthState(f.profile, FALSE,
                            IF f.profile # NoProfile THEN NoError ELSE "Profile not found",
                            TRUE),
              rows |-> f.rows]
    ELSE IF event = "SIGNED_OUT"
    THEN [state |-> AuthState(NoProfile, FALSE, NoError, TRUE), rows |-> rows]
    ELSE [state |-> state, rows |-> rows]

\* handleAuthStateChange of the global singleton hook before its await
handleAuthStateChangeBegin(state, event, user) ==
    IF event = "SIGNED_IN" /\ user # NoUser
    THEN [state EXCEPT !.isLoading = TRUE, !.error = NoError]
    ELSE state

\* handleAuthStateChange of the global singleton hook, once its profile
\* read has returned
handleAuthStateChange(state, event, rows, user, failed) ==
    IF event = "SIGNED_IN" /\ user # NoUser
    THEN LET profile == fetchUserProfileGlobal(rows, user, failed)
         IN  AuthState(profile, FALSE,
                 IF profile # NoProfile THEN NoError ELSE "Profile could not be loaded",
                 TRUE)
    ELSE IF event = "SIGNED_OUT"
    THEN AuthState(NoProfile, FALSE, NoError, TRUE)
    ELSE IF event = "TOKEN_REFRESHED" /\ user # NoUser
    THEN state
    ELSE IF event = "INITIAL_SESSION"
    THEN initializeAuth(rows, user, failed)
    ELSE state

\* what implementation i makes of an event that it handles without await
HandleNow(i, state, event, rows, user) ==
    IF i = "singleton"
    THEN handleAuthStateChange(state, event, rows, user, NoRead)
    ELSE onAuthStateChange(state, event, rows, user, NoRead).state

\* the profile implementation i reads for a user now
DerivedProfile(i, rows, user) ==
    IF i = "singleton"
    THEN fetchUserProfileGlobal(rows, user, NoRead)
    ELSE fetchUserProfile(rows, user, NoRead).profile

\* AuthenticatedLayout renders the loading spinner for this AuthState
LoadingSpinner(state) ==
    ~state.initialized \/ (state.isLoading /\ state.user = NoProfile)

\* implementation i mounts: the hook of a component and the singleton start
\* their initialization, AuthProvider registers the listener of the store
\* and calls initAuth unless the store is initialized; each subscribes
Mount(i) ==
    /\ i \notin listening
    /\ listening' = listening \cup {i}
    /\ LET init == i # "store" \/ ~authState[i].initialized
       IN  /\ pending' = [pending EXCEPT ![i] =
                   IF init
                   THEN Append(@, Handler(IF i = "singleton" THEN "INITIAL_SESSION"
                                          ELSE "initAuth", browserSession))
                   ELSE @]
           /\ authState' = [authState EXCEPT ![i] =
                   IF init /\ i = "hook" THEN [@ EXCEPT !.isLoading = TRUE, !.error = NoError]
                   ELSE IF init /\ i = "store" THEN [@ EXCEPT !.isLoading = TRUE]
                   ELSE @]
    /\ globalAuthInitialized' = (globalAuthInitialized \/ i = "singleton")
    /\ handled' = NoHandled
    /\ UNCHANGED <<browserSession, signedOut, userRows, booted>>

\* a user signs in: SIGNED_IN goes to every subscriber, whose handler
\* starts to read the profile
SignIn ==
    \E user \in SessionUsers :
        /\ \A i \in listening : Len(pending[i]) < MaxPending
        /\ browserSession' = user
        /\ pending' = [i \in Implementations |->
                IF i \in listening THEN Append(pending[i], Handler("SIGNED_IN", user))
                ELSE pending[i]]
        /\ authState' = [i \in Implementations |->
                IF i = "singleton" /\ i \in listening
                THEN handleAuthStateChangeBegin(authState[i], "SIGNED_IN", user)
                ELSE authState[i]]
        /\ signedOut' = [i \in Implementations |-> FALSE]
        /\ handled' = NoHandled
        /\ UNCHANGED <<listening, userRows, globalAuthInitialized, booted>>

\* the user signs out: SIGNED_OUT goes to every subscriber
SignOut ==
    /\ browserSession # NoUser
    /\ browserSession' = NoUser
    /\ authState' = [i \in Implementations |->
            IF i \in listening
            THEN HandleNow(i, authState[i], "SIGNED_OUT", userRows, NoUser)
            ELSE authState[i]]
    /\ signedOut' = [i \in Implementations |-> i \in listening]
    /\ handled' = Handled(listening, "SIGNED_OUT", browserSession, NoRead)
    /\ UNCHANGED <<listening, pending, userRows, globalAuthInitialized, booted>>

\* the identity provider refreshes the token of the session:
\* TOKEN_REFRESHED goes to every subscriber
TokenRefresh ==
    /\ browserSession # NoUser
    /\ authState' = [i \in Implementations |->
            IF i \in listening
            THEN HandleNow(i, authState[i], "TOKEN_REFRESHED", userRows, browserSession)
            ELSE authState[i]]
    /\ handled' = Handled(listening, "TOKEN_REFRESHED", browserSession, NoRead)
    /\ UNCHANGED <<browserSession, listening, pending, signedOut, userRows,
                   globalAuthInitialized, booted>>

\* the profile read of a handler of implementation i returns, and the
\* handler runs to its end
EndHandler(i) ==
    \E k \in 1..Len(pending[i]), failed \in FetchFailures :
        LET h == pending[i][k]
            r == IF i = "singleton"
                 THEN [state |-> handleAuthStateChange(authState[i], h.event, userRows,
                                                       h.user, failed),
                       rows |-> userRows]
                 ELSE IF h.event = "initAuth"
                 THEN initAuth(userRows, h.user, failed)
                 ELSE onAuthStateChange(authState[i], h.event, userRows, h.user, failed)
        IN  /\ pending' = [pending EXCEPT ![i] =
                    [n \in 1..(Len(@) - 1) |-> IF n < k THEN @[n] ELSE @[n + 1]]]
            /\ authState' = [authState EXCEPT ![i] = r.state]
            /\ userRows' = r.rows
            /\ handled' = Handled({i}, h.event, h.user, failed)
            /\ UNCHANGED <<browserSession, listening, signedOut, globalAuthInitialized, booted>>

\* cleanup_inactive_users of the admin system route marks a user inactive
DeactivateUser ==
    \E user \in SessionUsers :
        /\ user \in DOMAIN userRows
        /\ userRows[user].is_active
        /\ userRows' = [userRows EXCEPT ![user].is_active = FALSE]
        /\ handled' = NoHandled
        /\ UNCHANGED <<browserSession, listening, pending, signedOut, authState,
                       globalAuthInitialized, booted>>

\* the page is loaded again: the handlers and subscriptions of the old page
\* are gone, the hooks start from their initial state, the store from what
\* persist kept of it
Reload ==
    /\ listening # {}
    /\ listening' = {}
    /\ pending' = [i \in Implementations |-> <<>>]
    /\ signedOut' = [i \in Implementations |-> FALSE]
    /\ authState' = [i \in Implementations |->
            IF i = "store" THEN Rehydrated(authState[i])
            ELSE AuthState(NoProfile, TRUE, NoError, FALSE)]
    /\ globalAuthInitialized' = FALSE
    /\ handled' = NoHandled
    /\ UNCHANGED <<browserSession, userRows, booted>>

SessionInit ==
    /\ browserSession = NoUser
    /\ listening = {}
    /\ pending = [i \in Implementations |-> <<>>]
    /\ signedOut = [i \in Implementations |-> FALSE]
    /\ handled = NoHandled

PermInit ==
    /\ user_permissions = <<>>
    /\ now = 0
    /\ last = Idle

RateInit ==
    /\ rateLimitStore = <<>>
    /\ nowMs = StartMs
    /\ response = NoResponse
    /\ standing = <<>>
    /\ limited = NoLimited

Init == PermInit /\ RateInit /\ CacheInit /\ AuthInit /\ BootInit /\ PermCacheInit /\ MemberInit /\ OverlapInit /\ SubscriptionInit
    /\ SessionInit

PermNext ==
    \/ HasPermission /\ UNCHANGED exceptPerm
    \/ GrantPermission /\ UNCHANGED exceptPerm
    \/ GrantTemporaryPermission /\ UNCHANGED exceptPerm
    \/ RevokePermission /\ UNCHANGED exceptPerm
    \/ UpdateUserPermissions /\ UNCHANGED exceptPerm
    \/ Return /\ UNCHANGED exceptPerm
    \/ Tick /\ UNCHANGED exceptPerm

PermSpec == Init /\ [][PermNext]_vars

RateNext ==
    \/ Request /\ UNCHANGED exceptRate
    \/ TickRate /\ UNCHANGED exceptRate

RateSpec == Init /\ [][RateNext]_vars

LimitNext ==
    \/ LimitedRequest /\ UNCHANGED exceptLimit
    \/ TickRate /\ UNCHANGED limitVars /\ UNCHANGED exceptLimit

LimitSpec == Init /\ [][LimitNext]_vars

CacheNext ==
    \/ Set /\ UNCHANGED exceptCache
    \/ Get /\ UNCHANGED exceptCache
    \/ Invalidate /\ UNCHANGED exceptCache
    \/ InvalidateByTag /\ UNCHANGED exceptCache
    \/ TickCache /\ UNCHANGED exceptCache

CacheSpec == Init /\ [][CacheNext]_vars

RouteNext ==
    \/ CachedRequest /\ UNCHANGED exceptCache
    \/ TickCache /\ UNCHANGED exceptCache

RouteSpec == Init /\ [][RouteNext]_vars

AuthNext ==
    \/ AdminSystemGet /\ UNCHANGED exceptAuth
    \/ AdminSystemPost /\ UNCHANGED exceptAuth
    \/ AdminUsersGet /\ UNCHANGED exceptAuth
    \/ PostTask /\ UNCHANGED exceptAuth
    \/ WrappedRequest /\ UNCHANGED exceptAuth
    \/ RenderGuard /\ UNCHANGED exceptAuth

AuthSpec == Init /\ [][AuthNext]_vars

BootNext ==
    \/ MountHook /\ UNCHANGED exceptBoot
    \/ InitStore /\ UNCHANGED exceptBoot
    \/ MountSingleton /\ UNCHANGED exceptBoot
    \/ UnmountSingleton /\ UNCHANGED exceptBoot

BootSpec == Init /\ [][BootNext]_vars

PermCacheNext ==
    \/ BeginGetUserPermissions /\ UNCHANGED exceptPermCache
    \/ EndGetUserPermissions /\ UNCHANGED exceptPermCache
    \/ InvalidateUser /\ UNCHANGED exceptPermCache
    \/ InvalidateAll /\ UNCHANGED exceptPermCache
    \/ GrantCached /\ UNCHANGED exceptPermCache
    \/ RevokeCached /\ UNCHANGED exceptPermCache
    \/ TickPerm /\ UNCHANGED exceptPermCache

PermCacheSpec == Init /\ [][PermCacheNext]_vars

MemberNext ==
    \/ StartAdd /\ UNCHANGED exceptMember
    \/ CheckExistingMember /\ UNCHANGED exceptMember
    \/ CheckMemberLimit /\ UNCHANGED exceptMember
    \/ InsertMember /\ UNCHANGED exceptMember

MemberSpec == Init /\ [][MemberNext]_vars

OverlapNext ==
    \/ BeginGet /\ UNCHANGED exceptOverlap
    \/ EndGet /\ UNCHANGED exceptOverlap
    \/ BeginMutation /\ UNCHANGED exceptOverlap
    \/ EndMutation /\ UNCHANGED exceptOverlap
    \/ TickCache /\ UNCHANGED overlapVars /\ UNCHANGED exceptOverlap

OverlapSpec == Init /\ [][OverlapNext]_vars

SubscriptionNext ==
    \/ MountComponent /\ UNCHANGED exceptSubscription
    \/ UnmountComponent /\ UNCHANGED exceptSubscription
    \/ InitAuthListener /\ UNCHANGED exceptSubscription

SubscriptionSpec == Init /\ [][SubscriptionNext]_vars

SessionNext ==
    \/ \E i \in Implementations : Mount(i) /\ UNCHANGED exceptSession
    \/ SignIn /\ UNCHANGED exceptSession
    \/ SignOut /\ UNCHANGED exceptSession
    \/ TokenRefresh /\ UNCHANGED exceptSession
    \/ \E i \in Implementations : EndHandler(i) /\ UNCHANGED exceptSession
    \/ DeactivateUser /\ UNCHANGED exceptSession
    \/ Reload /\ UNCHANGED exceptSession

SessionSpec == Init /\ [][SessionNext]_vars

\* the browser of an application that uses the auth store
ProviderNext ==
    \/ Mount("store") /\ UNCHANGED exceptSession
    \/ SignIn /\ UNCHANGED exceptSession
    \/ SignOut /\ UNCHANGED exceptSession
    \/ TokenRefresh /\ UNCHANGED exceptSession
    \/ EndHandler("store") /\ UNCHANGED exceptSession
    \/ DeactivateUser /\ UNCHANGED exceptSession
    \/ Reload /\ UNCHANGED exceptSession

\* AuthProvider mounts once the page is loaded, and every call of the
\* identity provider and of the database returns; the user and the identity
\* provider are not bound to send any event
ProviderSpec ==
    /\ Init
    /\ [][ProviderNext]_vars
    /\ WF_vars(Mount("store") /\ UNCHANGED exceptSession)
    /\ WF_vars(EndHandler("store") /\ UNCHANGED exceptSession)

----------------------------------------------------------------------------
(* Properties of the permission service *)

IsCheck == last.op = "hasPermission"

NonAdmin(userId) == users[userId].role # "admin"

RoleDerived(userId, permissionName) ==
    permissionName \in role_permissions[users[userId].role]

\* the rows of user_permissions that grant permissionName to userId
GrantsOf(userId, permissionName) ==
    {i \in DOMAIN user_permissions :
        /\ user_permissions[i].user_id = userId
        /\ user_permissions[i].permission_id = PermissionId(permissionName)}

\* C1: a call of hasPermission for a user whose stored role is admin, whose
\* role lookup returned that row, returns true for every permission name and
\* every context, whatever the grant table holds.
C1_AdminAlwaysAllowed ==
    (IsCheck /\ users[last.userId].role = "admin" /\ last.failed # "users")
        => last.ret = TRUE

\* an admin who holds only a deactivated grant is allowed a club-scoped
\* permission
C1_Witness ==
    /\ IsCheck /\ last.userId = "admin1" /\ last.context = "club2"
    /\ last.failed = NoRead /\ last.ret = TRUE
    /\ user_permissions # <<>>
    /\ \A i \in DOMAIN user_permissions : ~user_permissions[i].is_active

\* C2: for a non-admin user without a role-derived grant of the permission,
\* whose grants of it have all been revoked, hasPermission returns false for
\* every context (stated for calls in which every read succeeds).
C2_RevokedIsDenied ==
    (/\ IsCheck
     /\ last.failed = NoRead
     /\ NonAdmin(last.userId)
     /\ ~RoleDerived(last.userId, last.permissionName)
     /\ GrantsOf(last.userId, last.permissionName) # {}
     /\ \A i \in GrantsOf(last.userId, last.permissionName) :
            ~user_permissions[i].is_active)
        => last.ret = FALSE

\* C3: when the user has an active, non-expired grant of the permission and
\* every read succeeds, hasPermission called without a context returns true.
C3_LiveGrantAllowed ==
    (/\ IsCheck
     /\ last.context = NoContext
     /\ last.failed = NoRead
     /\ \E i \in GrantsOf(last.userId, last.permissionName) : Live(user_permissions[i]))
        => last.ret = TRUE

\* a member is allowed a permission the role does not give, by a live grant
C3_Witness ==
    /\ IsCheck /\ last.context = NoContext /\ last.failed = NoRead
    /\ NonAdmin(last.userId)
    /\ ~RoleDerived(last.userId, last.permissionName)
    /\ \E i \in GrantsOf(last.userId, last.permissionName) : Live(user_permissions[i])
    /\ \E i \in GrantsOf(last.userId, last.permissionName) : ~user_permissions[i].is_active
    /\ last.ret = TRUE

\* C4: for a non-admin user whose only grants of a permission have an expiry
\* time in the past, hasPermission returns false with or without a context
\* (stated for calls in which every read succeeds).
C4_ExpiredIsDenied ==
    (/\ IsCheck
     /\ last.failed = NoRead
     /\ NonAdmin(last.userId)
     /\ ~RoleDerived(last.userId, last.permissionName)
     /\ GrantsOf(last.userId, last.permissionName) # {}
     /\ \A i \in GrantsOf(last.userId, last.permissionName) :
            /\ user_permissions[i].expires_at # NoExpiry
            /\ user_permissions[i].expires_at <= now)
        => last.ret = FALSE

\* C5: with a context that carries a clubId, hasPermission returns true for a
\* non-admin user only if the effective-permission view has a row for the
\* user and permission and a grant of it has no club or the same club
\* (stated for calls in which every read succeeds).
C5_ContextNeedsEffectiveRow ==
    (/\ IsCheck
     /\ last.failed = NoRead
     /\ NonAdmin(last.userId)
     /\ ClubId(last.context) # NoClub
     /\ last.ret = TRUE)
        => /\ user_effective_permissions(last.userId, last.permissionName) # {}
           /\ \E i \in GrantsOf(last.userId, last.permissionName) :
                ClubId(user_permissions[i].context) \in {NoClub, ClubId(last.context)}

\* C6: a call of hasPermission in which a read reported an error returns
\* false.
C6_FailClosed ==
    (IsCheck /\ last.failed # NoRead) => last.ret = FALSE

SameButActive(r1, r2) ==
    [r1 EXCEPT !.is_active = TRUE] = [r2 EXCEPT !.is_active = TRUE]

\* C7: no step removes a row of user_permissions or changes anything but its
\* active flag, which is never set back to true; a revokePermission adds no
\* row and changes only rows of its user and permission, which it leaves
\* inactive when it returns true.
C7_RevocationNeverDeletes ==
    [][
        /\ Len(user_permissions') >= Len(user_permissions)
        /\ \A i \in DOMAIN user_permissions :
            /\ SameButActive(user_permissions'[i], user_permissions[i])
            /\ user_permissions'[i].is_active => user_permissions[i].is_active
        /\ (last'.op = "revokePermission" /\ last' # last) =>
            /\ Len(user_permissions') = Len(user_permissions)
            /\ \A i \in DOMAIN user_permissions :
                user_permissions'[i] # user_permissions[i] =>
                    /\ user_permissions[i].user_id = last'.userId
                    /\ user_permissions[i].permission_id = PermissionId(last'.permissionName)
            /\ last'.ret =>
                \A i \in DOMAIN user_permissions :
                    (/\ user_permissions[i].user_id = last'.userId
                     /\ user_permissions[i].permission_id = PermissionId(last'.permissionName))
                        => ~user_permissions'[i].is_active
    ]_vars

\* a revoke has deactivated a grant next to a grant it left active
C7_Witness ==
    /\ last.op = "revokePermission" /\ last.ret = TRUE
    /\ \E i, j \in DOMAIN user_permissions :
        /\ user_permissions[i].user_id = last.userId
        /\ user_permissions[i].permission_id = PermissionId(last.permissionName)
        /\ ~user_permissions[i].is_active
        /\ user_permissions[j].is_active

IsWrite(call) == call.op \in {"grantPermission", "grantTemporaryPermission", "revokePermission"}

\* C8: grantPermission and revokePermission return a boolean; with an unknown
\* permission name, a failed lookup or a failed write they return false and
\* leave the table as it was; a grant that returns true has added one row.
C8_WriteFailuresAreFalse ==
    [][
        (IsWrite(last') /\ last = Idle) =>
            /\ last'.ret \in BOOLEAN
            /\ (PermissionId(last'.permissionName) = NoId \/ last'.failed # NoRead) =>
                    /\ last'.ret = FALSE
                    /\ user_permissions' = user_permissions
            /\ last'.ret = TRUE =>
                    /\ last'.failed = NoRead
                    /\ PermissionId(last'.permissionName) # NoId
                    /\ last'.op # "revokePermission" =>
                            Len(user_permissions') = Len(user_permissions) + 1
    ]_vars

\* a grant of an unknown permission name has returned false
C8_Witness ==
    /\ last.op = "grantPermission"
    /\ last.permissionName = "NO_SUCH_PERMISSION"
    /\ last.failed = NoRead
    /\ last.ret = FALSE

----------------------------------------------------------------------------
(* Properties of the rate limiter *)

\* the key of the request a step of the limiter serves
ServedKey == <<response'.rateLimitKey, response'.identifier>>

\* the entry of the key is in its window at the time of the request
InWindow(key) ==
    key \in DOMAIN rateLimitStore /\ ~(nowMs > rateLimitStore[key].resetTime)

\* C9: in every window of every key the limiter allows the requests while
\* the counter is below maxRequests, each adding one to the counter, and
\* rejects every request once the counter is maxRequests, leaving the counter
\* and the window as they were; a request outside a window is allowed and
\* opens a window of windowMs with the counter at 1; the counter of an entry
\* is never above maxRequests.
C9_ExactlyMaxPerWindow ==
    [][
        nowMs' = nowMs =>
            LET key == ServedKey
                config == RATE_LIMIT_CONFIGS[key[1]]
            IN  /\ key \in DOMAIN rateLimitStore'
                /\ \A k \in DOMAIN rateLimitStore' :
                        rateLimitStore'[k].count \in 1..RATE_LIMIT_CONFIGS[k[1]].maxRequests
                /\ IF InWindow(key)
                   THEN IF rateLimitStore[key].count < config.maxRequests
                        THEN /\ response'.status # 429
                             /\ rateLimitStore'[key] =
                                    [rateLimitStore[key] EXCEPT !.count = @ + 1]
                        ELSE /\ response'.status = 429
                             /\ rateLimitStore'[key] = rateLimitStore[key]
                   ELSE /\ response'.status # 429
                        /\ rateLimitStore'[key] =
                                [count |-> 1, resetTime |-> nowMs + config.windowMs]
    ]_vars

\* a request is rejected on the last millisecond of a window that is full,
\* while another key holds a window that is not
C9_Witness ==
    /\ response.status = 429
    /\ LET key == <<response.rateLimitKey, response.identifier>>
       IN  /\ rateLimitStore[key].count = RATE_LIMIT_CONFIGS[key[1]].maxRequests
           /\ rateLimitStore[key].resetTime = nowMs
           /\ \E k \in DOMAIN rateLimitStore : k # key /\ rateLimitStore[k].count = 1

C11_WindowResets ==
    [][
        nowMs' = nowMs =>
            LET key == ServedKey
                config == RATE_LIMIT_CONFIGS[key[1]]
                expired == key \in DOMAIN rateLimitStore /\ nowMs > rateLimitStore[key].resetTime
            IN  IF key \notin DOMAIN rateLimitStore \/ expired
                THEN /\ response'.status # 429
                     /\ response'.remaining = config.maxRequests - 1
                     /\ rateLimitStore'[key].count = 1
                     /\ rateLimitStore'[key].resetTime = nowMs + config.windowMs
                     /\ (key \in DOMAIN standing /\ standing[key] = "rejected") =>
                            standing'[key] = "readmitted"
                ELSE LET incremented == rateLimitStore[key].count + 1
                     IN  /\ (response'.status = 429) <=> (incremented > config.maxRequests)
                         /\ rateLimitStore'[key].count =
                                IF incremented > config.maxRequests
                                THEN config.maxRequests ELSE incremented
                         /\ rateLimitStore'[key].resetTime = rateLimitStore[key].resetTime
    ]_vars

\* a key that was being rejected has been let through after its window: the
\* entry counts 1 in a window that has just been opened
C11_Witness ==
    \E key \in DOMAIN standing :
        /\ standing[key] = "readmitted"
        /\ key = <<response.rateLimitKey, response.identifier>>
        /\ response.status # 429
        /\ rateLimitStore[key].count = 1
        /\ rateLimitStore[key].resetTime = nowMs + RATE_LIMIT_CONFIGS[key[1]].windowMs

----------------------------------------------------------------------------
(* Properties of the response cache *)

\* a step of ApiCache, told by the call it leaves in cacheLast
IsCacheCall(op) == cacheLast'.op = op /\ cacheNow' = cacheNow

\* C12: a set stores the value with the time of the call; a get of a key the
\* cache holds returns the value while now - timestamp < ttl and leaves the
\* cache as it was, and returns null and evicts the entry when
\* now - timestamp >= ttl; a get of a key the cache does not hold returns null.
C12_GetHonoursTtl ==
    [][
        /\ IsCacheCall("set") =>
                /\ cache'[cacheLast'.key].data = cacheLast'.data
                /\ cache'[cacheLast'.key].timestamp = cacheNow
        /\ IsCacheCall("get") =>
                LET key == cacheLast'.key
                IN  IF key \notin DOMAIN cache
                    THEN cacheLast'.ret = NoData /\ cache' = cache
                    ELSE IF cacheNow - cache[key].timestamp < cache[key].ttl
                    THEN cacheLast'.ret = cache[key].data /\ cache' = cache
                    ELSE cacheLast'.ret = NoData /\ key \notin DOMAIN cache'
    ]_vars

\* C13: invalidateByTag(t) removes every entry whose latest set listed the
\* tag t and leaves every entry whose latest set did not list it as it was.
C13_InvalidateByTagFrame ==
    [][
        IsCacheCall("invalidateByTag") =>
            \A k \in DOMAIN cache :
                IF cacheLast'.tag \in registered[k]
                THEN k \notin DOMAIN cache'
                ELSE k \in DOMAIN cache' /\ cache'[k] = cache[k]
    ]_vars

----------------------------------------------------------------------------
(* Properties of the routes wrapped by withCache *)

\* a step in which a route serves a request: the request and the response
\* are in served'
IsServing == cacheNow' = cacheNow /\ served' # NoServed

\* the body the handler makes for the request in served
BodyOfServed ==
    Body(served.options.endpoint, served.query, served.user)

\* C14: a request with the method POST, PUT, PATCH or DELETE is not answered
\* from the cache and its answer is not put into the cache; when its handler
\* answers 2xx, no tag of the endpoint is left in the tag map and no key that
\* was registered under one of them is left in the cache; when its handler
\* does not answer 2xx, the cache and the tag map are as they were.
C14_MutationsBypassCache ==
    [][
        (IsServing /\ served'.method \in Mutations) =>
            LET tags == Elements(CACHE_CONFIGS[served'.options.endpoint].tags)
            IN  /\ served'.response.xcache = "NONE"
                /\ served'.response.status = served'.handled
                /\ DOMAIN cache' \subseteq DOMAIN cache
                /\ \A k \in DOMAIN cache' : cache'[k] = cache[k]
                /\ IF served'.handled >= 200 /\ served'.handled < 300
                   THEN \A tag \in tags :
                            /\ tag \notin DOMAIN tagMap'
                            /\ tag \in DOMAIN tagMap => tagMap[tag] \cap DOMAIN cache' = {}
                   ELSE cache' = cache /\ tagMap' = tagMap
    ]_vars

----------------------------------------------------------------------------
(* Properties of the authorization of routes and guards *)

AdminRoutes == {"GET /api/admin/system", "POST /api/admin/system", "GET /api/admin/users"}

WrappedRoutes == AdminRoutes \cup {"POST /api/tasks", "withAuth"}

Guards == {"SimpleRoleGuard", "PermissionGuard"}

\* C16: a route wrapped by withAuth answers 401 without calling its handler
\* when the request does not authenticate to an active profile, answers 403
\* without calling its handler when allowedRoles is given and the role of the
\* user is neither admin nor listed, and calls its handler otherwise; a
\* request whose handler is not called changes no table.
C16_WithAuthGuardsHandler ==
    [][
        authLast'.op \in WrappedRoutes =>
            LET a == authLast'
                authenticated ==
                    /\ a.failed = NoRead
                    /\ a.session \in DOMAIN profiles
                    /\ is_active[a.session]
                allowedRoles == a.options.allowedRoles
                authorized ==
                    \/ allowedRoles = NoRoles
                    \/ profiles[a.session] = "admin"
                    \/ profiles[a.session] \in allowedRoles
            IN  /\ IF ~authenticated THEN a.status = 401 /\ ~a.ran
                   ELSE IF ~authorized THEN a.status = 403 /\ ~a.ran
                   ELSE a.ran
                /\ ~a.ran => UNCHANGED <<is_active, tasks, activities>>
    ]_vars

\* a member is refused by POST /api/tasks, whose handler has run for others
C16_Witness ==
    /\ authLast.op = "POST /api/tasks"
    /\ authLast.role = "member"
    /\ authLast.status = 403
    /\ ~authLast.ran
    /\ tasks # {}

\* C17: the admin routes call their handler only for a user whose role is
\* admin; an authenticated club_leader or member is answered 403 and the
\* handler is not called.
C17_AdminRoutesAdminOnly ==
    authLast.op \in AdminRoutes =>
        /\ authLast.ran => authLast.role = "admin"
        /\ authLast.role \in {"club_leader", "member"} =>
                authLast.status = 403 /\ ~authLast.ran

\* C18: whatever requiredRole and allowedRoles are, authorizeUser authorizes
\* an admin, the role checks of withRateLimit do not answer an admin 403, and
\* the guards SimpleRoleGuard and PermissionGuard give an admin access.
C18_AdminBypassesRoleChecks ==
    /\ \A allowedRoles \in AllowedRolesOptions, clubId \in DOMAIN clubs \cup {NoClub} :
            authorizeUser(AuthenticatedUser("admin1", "admin", NoClub),
                          allowedRoles, clubId).authorized
    /\ \A requiredRole \in Roles \cup {NoRole}, allowedRoles \in AllowedRolesOptions :
            withRateLimit(<<>>, "scenario", requiredRole, allowedRoles,
                          "admin1", StartMs).response.status # 403
    /\ (authLast.op \in Guards /\ authLast.role = "admin") => authLast.ran

\* C19: POST /api/tasks does not answer an admin 403, whatever the club_id;
\* it answers a club_leader 403 exactly when club_id is not the club they
\* lead; it answers a member 403; every task was created by an admin or a
\* club leader.
C19_PostTaskAuthorization ==
    /\ (authLast.op = "POST /api/tasks" /\ authLast.role # NoRole) =>
            CASE authLast.role = "admin" -> authLast.status # 403
              [] authLast.role = "club_leader" ->
                    (authLast.status = 403) <=>
                        (authLast.club_id # LeaderClub(authLast.session))
              [] OTHER -> authLast.status = 403
    /\ \A t \in tasks : profiles[t[1]] \in {"admin", "club_leader"}

----------------------------------------------------------------------------
(* Properties of the auth bootstrap *)

\* C20: a bootstrap in which no call fails leaves, without a session, the
\* user null and no error; with the session of a user that has no profile
\* row, a new row with the role member and active, and that profile as the
\* user; with the session of a user that has an active profile row, the
\* table as it was and that profile as the user.
C20_BootstrapProvisionsMember ==
    [][
        (booted'.implementation \in Implementations /\ booted'.failed = NoRead) =>
            LET session == booted'.session
                state == authState'[booted'.implementation]
            IN  IF session = NoUser
                THEN state.user = NoProfile /\ state.error = NoError
                ELSE IF session \notin DOMAIN userRows
                THEN /\ session \in DOMAIN userRows'
                     /\ userRows'[session] = UserRow("member", TRUE)
                     /\ state.user.id = session
                     /\ state.user.role = "member"
                     /\ state.user.is_active
                ELSE /\ userRows' = userRows
                     /\ userRows[session].is_active =>
                            /\ state.user.id = session
                            /\ state.user.role = userRows[session].role
    ]_vars

----------------------------------------------------------------------------
(* Properties of the routes behind the limiter *)

----------------------------------------------------------------------------
(* Properties of the bulk update of permissions *)

\* the permissions the user holds by an active row of user_permissions
ActiveGrants(rows, userId) ==
    {rows[i].permission_id : i \in {j \in DOMAIN rows :
                                        rows[j].user_id = userId /\ rows[j].is_active}}

\* C27: updateUserPermissions replaces the grants of the user: when it
\* returns true the permissions the user holds by active rows are exactly
\* those of permissionNames, and when it returns false they are the ones the
\* user held before the call.
C27_UpdateReplacesOrKeeps ==
    [][
        (last = Idle /\ last'.op = "updateUserPermissions") =>
            LET userId == last'.userId
                before == ActiveGrants(user_permissions, userId)
                after == ActiveGrants(user_permissions', userId)
                names == last'.permissionNames
            IN  IF last'.ret
                THEN after = {PermissionId(names[k]) : k \in DOMAIN names}
                ELSE after = before
    ]_vars

----------------------------------------------------------------------------
(* Properties of the Retry-After header *)

\* C29: the Retry-After header of every rejected request is the number of
\* whole seconds until the window of its key resets,
\* ceil((resetTime - now) / 1000), which is at least 1 and at most the
\* windowMs / 1000 of the configuration of the key.
C29_RetryAfterIsRemainingSeconds ==
    [][
        (nowMs' = nowMs /\ response'.status = 429) =>
            LET key == ServedKey
                config == RATE_LIMIT_CONFIGS[key[1]]
            IN  /\ response'.retryAfter = Ceil(rateLimitStore[key].resetTime - nowMs, 1000)
                /\ response'.retryAfter >= 1
                /\ response'.retryAfter <= config.windowMs \div 1000
    ]_vars

----------------------------------------------------------------------------
(* Properties of the permission cache *)

\* a step in which getUserPermissions resolves
IsGetUserPermissions ==
    /\ permLast'.op = "getUserPermissions"
    /\ permNow' = permNow
    /\ user_permissions' = user_permissions
    /\ revokedAt' = revokedAt
    /\ invalidated' \subseteq invalidated
    /\ permissionCache' # permissionCache \/ fetching' = fetching

\* C28: a call of getUserPermissions without forceRefresh resolves to a list
\* that was read from the store at most CACHE_DURATION (5 minutes) earlier; a
\* call with forceRefresh, and the first call for a user after
\* invalidateUser(user) or invalidateAll(), fetches the list; and a list that
\* still holds a permission revoked from the user is resolved to at most
\* CACHE_DURATION after the revocation.
C28_CachedAtMostFiveMinutes ==
    [][
        IsGetUserPermissions =>
            LET call == permLast'
            IN  /\ ~call.forceRefresh => permNow - call.readAt <= CACHE_DURATION
                /\ call.forceRefresh => call.refetched
                /\ call.first => call.refetched
                /\ (CachedName \in call.permissions /\ revokedAt # NoTime) =>
                        permNow - revokedAt <= CACHE_DURATION
    ]_vars

----------------------------------------------------------------------------
(* Properties of the membership of a club *)

\* C30: whatever the interleaving of the requests that add members, a club
\* with settings.maxMembers = N never has more than N rows in club_members,
\* and never two rows for the same user.
C30_MemberLimitAndUniqueness ==
    \A c \in DOMAIN clubs :
        /\ clubSettings[c].maxMembers # 0 =>
                Cardinality(RowsOfClub(memberRows, c)) <= clubSettings[c].maxMembers
        /\ \A i, j \in RowsOfClub(memberRows, c) :
                memberRows[i] = memberRows[j] => i = j

----------------------------------------------------------------------------
(* Properties of overlapping requests through withCache *)

\* the bodies made from a revision of the data older than revision n
BodiesBefore(n) ==
    {BodyAt(user, m) : user \in OverlapUsers, m \in 0..(n - 1)}

\* C22: once a mutation has returned with 2xx and invalidated the tags of
\* the endpoint, the cache holds no entry made by a GET handler that read the
\* data before that mutation, and a GET received after the mutation is not
\* answered from the cache with such data.
C22_NoStaleEntryAfterMutation ==
    /\ \A key \in DOMAIN cache : cache[key].data \notin BodiesBefore(completed)
    /\ answered.xcache = "HIT" => answered.data \notin BodiesBefore(answered.after)

----------------------------------------------------------------------------
(* Properties of the subscriptions *)

\* C25: whatever components mount and unmount, the identity provider holds
\* at most one callback of the global singleton hook, exactly one while a
\* component is mounted and none once the last one has unmounted; and it
\* holds at most one callback of the store however often initAuthListener
\* is called.
C25_OneSubscription ==
    /\ callbacks.singleton <= 1
    /\ globalListeners # {} <=> callbacks.singleton = 1
    /\ globalListeners = {} => callbacks.singleton = 0 /\ globalSubscription = NoSubscription
    /\ callbacks.store <= 1
    /\ authListenerInitialized <=> callbacks.store = 1

\* every component is mounted again after the last one had unmounted, and
\* the listener of the store is registered: one callback each
C25_Witness ==
    /\ resubscribed
    /\ globalListeners = Components
    /\ callbacks = [singleton |-> 1, store |-> 1]

----------------------------------------------------------------------------
(* Properties of the handlers of the session changes *)

\* C21: when an implementation has handled SIGNED_IN or TOKEN_REFRESHED,
\* its profile read did not fail and no other handler of it is in flight,
\* its cached user is the profile it reads for the user of the session now;
\* when it has handled SIGNED_OUT, its cached user is null.
C21_EventsRederiveUser ==
    \A i \in handled.implementations :
        /\ ( /\ handled.event \in {"SIGNED_IN", "TOKEN_REFRESHED"}
             /\ handled.failed = NoRead
             /\ pending[i] = <<>> )
           => authState[i].user = DerivedProfile(i, userRows, handled.user)
        /\ handled.event = "SIGNED_OUT" => authState[i].user = NoProfile

\* C24: from the handling of SIGNED_OUT until a later sign-in event
\* arrives, the cached user of the implementation is null, whatever
\* handlers of earlier events finish meanwhile.
C24_SignOutWins ==
    \A i \in Implementations : signedOut[i] => authState[i].user = NoProfile

\* C26: once AuthProvider has mounted, the layout leaves the loading
\* spinner (the store reaches initialized = true with isLoading = false or
\* with a user) unless the page is loaded again first.
C26_SpinnerEnds ==
    ("store" \in listening) ~>
        ("store" \notin listening \/ ~LoadingSpinner(authState["store"]))

====
